---- MODULE Spec2Model ----
(***************************************************************************)
(* Learning-rate control of RETURNN (LearningRateControl.py): the per-epoch *)
(* record store, the base scheduler (hold-over, clamping, error-key         *)
(* resolution, relative error, best-epoch search), the four policies and    *)
(* the save/load persistence of the store.                                  *)
(*                                                                          *)
(* Python floats are modelled as extended rationals <<n, d>>: d > 0 is the  *)
(* finite number n/d in lowest terms, <<0,0>> is nan, <<1,0>> is inf and    *)
(* <<-1,0>> is -inf.  Python's None is the one-element tuple <<"None">>.    *)
(***************************************************************************)
EXTENDS Integers, Sequences, FiniteSets, TLC

\* ------------------------------------------------------------------ floats

None == <<"None">>
NaN == <<0, 0>>
PosInf == <<1, 0>>
NegInf == <<-1, 0>>

\* None where the code holds an epoch number, and where it holds an error key.
NoEpoch == -1
NoKey == "<None>"

Abs(i) == IF i < 0 THEN -i ELSE i

RECURSIVE Gcd(_, _)
Gcd(a, b) == IF b = 0 THEN a ELSE Gcd(b, a % b)

\* The rational n/d (d # 0) in lowest terms with a positive denominator.
Num(n, d) ==
  LET g == Gcd(Abs(n), Abs(d))
      s == IF d < 0 THEN -1 ELSE 1
  IN <<(s * n) \div g, (s * d) \div g>>

IsNone(x) == x = None
IsNaN(x) == x = NaN
IsInf(x) == x = PosInf \/ x = NegInf
IsFinite(x) == x # None /\ x[2] > 0
IsZero(x) == IsFinite(x) /\ x[1] = 0
Sign(x) == IF x[1] > 0 THEN 1 ELSE IF x[1] < 0 THEN -1 ELSE 0

\* Python's truth value of a float-or-None: None and 0.0 are false.
Truthy(x) == x # None /\ ~IsZero(x)

FNeg(x) == <<-x[1], x[2]>>

FAbs(x) == <<Abs(x[1]), x[2]>>

FAdd(a, b) ==
  IF IsNaN(a) \/ IsNaN(b) THEN NaN
  ELSE IF IsInf(a) /\ IsInf(b) THEN (IF a = b THEN a ELSE NaN)
  ELSE IF IsInf(a) THEN a
  ELSE IF IsInf(b) THEN b
  ELSE Num(a[1] * b[2] + b[1] * a[2], a[2] * b[2])

FSub(a, b) == FAdd(a, FNeg(b))

FMul(a, b) ==
  IF IsNaN(a) \/ IsNaN(b) THEN NaN
  ELSE IF IsInf(a) \/ IsInf(b)
       THEN (IF Sign(a) * Sign(b) = 0 THEN NaN
             ELSE IF Sign(a) * Sign(b) > 0 THEN PosInf ELSE NegInf)
  ELSE Num(a[1] * b[1], a[2] * b[2])

\* Python float division raises ZeroDivisionError exactly when the divisor is 0.0.
DivRaises(a, b) == IsZero(b)

\* a / b for a divisor that is not 0.0.
FDiv(a, b) ==
  IF IsNaN(a) \/ IsNaN(b) THEN NaN
  ELSE IF IsInf(a) /\ IsInf(b) THEN NaN
  ELSE IF IsInf(a) THEN (IF Sign(a) * Sign(b) > 0 THEN PosInf ELSE NegInf)
  ELSE IF IsInf(b) THEN Num(0, 1)
  ELSE Num(a[1] * b[2], a[2] * b[1])

\* a < b on floats: every comparison with nan is false.
FLess(a, b) ==
  IF IsNaN(a) \/ IsNaN(b) THEN FALSE
  ELSE IF IsInf(a) \/ IsInf(b)
       THEN (IF IsInf(a) /\ IsInf(b) THEN a = NegInf /\ b = PosInf
             ELSE IF IsInf(a) THEN a = NegInf
             ELSE b = PosInf)
  ELSE a[1] * b[2] < b[1] * a[2]

FGreater(a, b) == FLess(b, a)

FLessEq(a, b) == ~IsNaN(a) /\ ~IsNaN(b) /\ ~FLess(b, a)

\* ----------------------------------------------------------------- strings

\* The characters of the error keys in code-point order.
Alphabet == "/0123456789:_abcdefghijklmnopqrstuvwxyz"

CharAt(s, i) == SubSeq(s, i, i)

Ord(c) == CHOOSE i \in 1..Len(Alphabet) : CharAt(Alphabet, i) = c

RECURSIVE StrLessFrom(_, _, _)
StrLessFrom(a, b, i) ==
  IF i > Len(b) THEN FALSE
  ELSE IF i > Len(a) THEN TRUE
  ELSE IF CharAt(a, i) = CharAt(b, i) THEN StrLessFrom(a, b, i + 1)
  ELSE Ord(CharAt(a, i)) < Ord(CharAt(b, i))

\* Python's a < b on strings.
StrLess(a, b) == StrLessFrom(a, b, 1)

\* key.startswith(prefix)
StartsWith(key, prefix) ==
  Len(key) >= Len(prefix) /\ SubSeq(key, 1, Len(prefix)) = prefix

\* min(keys) for a non-empty set of strings.
MinStr(keys) == CHOOSE k \in keys : \A o \in keys : o = k \/ StrLess(k, o)

\* sorted(keys) as a sequence.
RECURSIVE SortedStrs(_)
SortedStrs(keys) ==
  IF keys = {} THEN <<>>
  ELSE LET k == MinStr(keys) IN <<k>> \o SortedStrs(keys \ {k})

\* sorted(epochs) as a sequence.
RECURSIVE SortedInts(_)
SortedInts(S) ==
  IF S = {} THEN <<>>
  ELSE LET k == CHOOSE x \in S : \A y \in S : x <= y
       IN <<k>> \o SortedInts(S \ {k})

\* --------------------------------------------------------------- the store

\* An empty dict.
EmptyDict == [k \in {} |-> None]

\* The error argument of EpochData.__init__: None, a float or a dict.
ErrNone == [t |-> "none", f |-> None, d |-> EmptyDict]
ErrFloat(f) == [t |-> "float", f |-> f, d |-> EmptyDict]
ErrDict(d) == [t |-> "dict", f |-> None, d |-> d]

\* EpochData.__init__: a float error is the old format, None is an empty dict.
EpochData(learningRate, error) ==
  [learningRate |-> learningRate,
   error |-> IF error.t = "float" THEN [k \in {"old_format_score"} |-> error.f]
             ELSE IF error.t = "none" THEN EmptyDict
             ELSE error.d]

\* self.epochData when the loaded text is the list display []: a list has no
\* keys() and no items() and holds no epoch.  The list is written as the record
\* of the epoch -2, which no call uses.
ListStore == [e \in {-2} |-> [learningRate |-> None, error |-> EmptyDict]]

\* d.update(o) on dicts.
DictUpdate(d, o) ==
  [k \in DOMAIN d \cup DOMAIN o |-> IF k \in DOMAIN o THEN o[k] ELSE d[k]]

\* epochData[epoch] = data
StorePut(ed, epoch, data) ==
  [e \in DOMAIN ed \cup {epoch} |-> IF e = epoch THEN data ELSE ed[e]]

\* The last numEpochs epochs before epoch that have a record, ascending
\* (Python's last_epochs[-numEpochs:], which is the whole list for 0).
last_epochs_for_epoch(ed, epoch, numEpochs) ==
  LET Slice(last_epochs, n) ==
        IF n = 0 THEN <<>>
        ELSE IF numEpochs = 0 \/ numEpochs >= n THEN last_epochs
        ELSE SubSeq(last_epochs, n - numEpochs + 1, n)
      Last(last_epochs) == Slice(last_epochs, Len(last_epochs))
  IN Last(SortedInts({e \in DOMAIN ed : e < epoch}))

\* A get_last_epoch that takes the last of all the other epochs with a record.
LastEpochOfAll(ed, epoch) ==
  LET epochs == DOMAIN ed \ {epoch}
  IN IF epochs = {} THEN NoEpoch
     ELSE CHOOSE e \in epochs : \A o \in epochs : o <= e

\* The last epoch before epoch that has a record, or None.
get_last_epoch(ed, epoch) ==
  LET epochs == {e \in DOMAIN ed : e < epoch}
  IN IF epochs = {} THEN NoEpoch
     ELSE CHOOSE e \in epochs : \A o \in epochs : o <= e

\* set_default_learning_rate_for_epoch: the store after the call.
set_default_learning_rate_for_epoch(ed, epoch, learningRate) ==
  IF epoch \in DOMAIN ed
  THEN IF ~Truthy(ed[epoch].learningRate)
       THEN [ed EXCEPT ![epoch].learningRate = learningRate]
       ELSE ed
  ELSE StorePut(ed, epoch, EpochData(learningRate, ErrNone))

\* A most recent rate that never looks at the epoch itself.
MostRecentRateBefore(ed, c, epoch, excludeCurrent) ==
  LET cand == {e \in DOMAIN ed : e < epoch /\ ed[e].learningRate # None}
  IN IF cand = {} THEN c.defaultLearningRate
     ELSE ed[CHOOSE e \in cand : \A o \in cand : o <= e].learningRate

\* The rate of the greatest epoch <= epoch (< epoch with excludeCurrent) whose
\* rate is not None, or the default rate.
get_most_recent_learning_rate(ed, c, epoch, excludeCurrent) ==
  LET cand == {e \in DOMAIN ed :
                 /\ e <= epoch
                 /\ ~(excludeCurrent /\ e = epoch)
                 /\ ed[e].learningRate # None}
  IN IF cand = {} THEN c.defaultLearningRate
     ELSE ed[CHOOSE e \in cand : \A o \in cand : o <= e].learningRate

\* ---------------------------------------------------------- error-key logic

\* The first key of seq that is in S, or NoKey.
RECURSIVE FirstIn(_, _)
FirstIn(seq, S) ==
  IF seq = <<>> THEN NoKey
  ELSE IF Head(seq) \in S THEN Head(seq)
  ELSE FirstIn(Tail(seq), S)

\* [key, key + "_output"] for every key of the list.
RECURSIVE WithOutputVariants(_)
WithOutputVariants(keys) ==
  IF keys = <<>> THEN <<>>
  ELSE <<Head(keys), Head(keys) \o "_output">> \o WithOutputVariants(Tail(keys))

\* A resolution that looks for train_score before the keys with a dev_ prefix.
TrainScoreBeforeDevKeys(ed, c, epoch) ==
  LET Pick(have, k1, k5) ==
        LET s2 == {k \in have : k = "dev_score_output/output"
                                 \/ StartsWith(k, "dev_score_output/output_")}
            s3 == {k \in have : StartsWith(k, "dev_score_output/")}
            s4 == {k \in have : StartsWith(k, "dev_")}
        IN IF have = {} THEN NoKey
           ELSE IF have = {"old_format_score"} THEN "old_format_score"
           ELSE IF k1 # NoKey THEN k1
           ELSE IF k5 # NoKey THEN k5
           ELSE IF s2 # {} THEN MinStr(s2)
           ELSE IF s3 # {} THEN MinStr(s3)
           ELSE IF s4 # {} THEN MinStr(s4)
           ELSE MinStr(have)
      Resolve(have) ==
        Pick(have,
             FirstIn(WithOutputVariants(c.errorMeasureKey.keys)
                       \o <<"dev_score", "dev_score_output">>, have),
             FirstIn(<<"train_score", "train_score_output">>, have))
  IN IF epoch \notin DOMAIN ed
     THEN IF c.errorMeasureKey.kind = "none" THEN NoKey
          ELSE c.errorMeasureKey.keys[1]
     ELSE Resolve(DOMAIN ed[epoch].error)

\* A resolution that gives the first selector name when the map has none of the
\* selector names.
SelectorOrNothing(ed, c, epoch) ==
  LET Pick(have, k1, k5) ==
        LET s2 == {k \in have : k = "dev_score_output/output"
                                 \/ StartsWith(k, "dev_score_output/output_")}
            s3 == {k \in have : StartsWith(k, "dev_score_output/")}
            s4 == {k \in have : StartsWith(k, "dev_")}
        IN IF have = {} THEN NoKey
           ELSE IF have = {"old_format_score"} THEN "old_format_score"
           ELSE IF k1 # NoKey THEN k1
           ELSE IF c.errorMeasureKey.kind # "none" THEN c.errorMeasureKey.keys[1]
           ELSE IF s2 # {} THEN MinStr(s2)
           ELSE IF s3 # {} THEN MinStr(s3)
           ELSE IF s4 # {} THEN MinStr(s4)
           ELSE IF k5 # NoKey THEN k5
           ELSE MinStr(have)
      Resolve(have) ==
        Pick(have,
             FirstIn(WithOutputVariants(c.errorMeasureKey.keys)
                       \o <<"dev_score", "dev_score_output">>, have),
             FirstIn(<<"train_score", "train_score_output">>, have))
  IN IF epoch \notin DOMAIN ed
     THEN IF c.errorMeasureKey.kind = "none" THEN NoKey
          ELSE c.errorMeasureKey.keys[1]
     ELSE Resolve(DOMAIN ed[epoch].error)

\* errorMeasureKey is [kind |-> "none" | "str" | "list", keys |-> <<...>>].
get_error_key(ed, c, epoch) ==
  LET Pick(have, k1, k5) ==
        LET s2 == {k \in have : k = "dev_score_output/output"
                                 \/ StartsWith(k, "dev_score_output/output_")}
            s3 == {k \in have : StartsWith(k, "dev_score_output/")}
            s4 == {k \in have : StartsWith(k, "dev_")}
        IN IF have = {} THEN NoKey
           ELSE IF have = {"old_format_score"} THEN "old_format_score"
           ELSE IF k1 # NoKey THEN k1
           ELSE IF s2 # {} THEN MinStr(s2)
           ELSE IF s3 # {} THEN MinStr(s3)
           ELSE IF s4 # {} THEN MinStr(s4)
           ELSE IF k5 # NoKey THEN k5
           ELSE MinStr(have)
      Resolve(have) ==
        Pick(have,
             FirstIn(WithOutputVariants(c.errorMeasureKey.keys)
                       \o <<"dev_score", "dev_score_output">>, have),
             FirstIn(<<"train_score", "train_score_output">>, have))
  IN IF epoch \notin DOMAIN ed
     THEN IF c.errorMeasureKey.kind = "none" THEN NoKey
          ELSE c.errorMeasureKey.keys[1]
     ELSE Resolve(DOMAIN ed[epoch].error)

\* self.epochData[epoch].error, or {} without a record.
get_epoch_error_dict(ed, epoch) ==
  IF epoch \notin DOMAIN ed THEN EmptyDict ELSE ed[epoch].error

\* (key, value) of the epoch's resolved error key, (None, None) without errors;
\* exc is the assertion that fails for an empty or missing key.
get_epoch_error_key_value(ed, c, epoch) ==
  LET KeyValue(error, key) ==
        IF DOMAIN error = {} THEN [exc |-> "", key |-> NoKey, value |-> None]
        ELSE IF key = NoKey \/ key = "" \/ key \notin DOMAIN error
             THEN [exc |-> "AssertionError", key |-> NoKey, value |-> None]
        ELSE [exc |-> "", key |-> key, value |-> error[key]]
  IN KeyValue(get_epoch_error_dict(ed, epoch), get_error_key(ed, c, epoch))

\* A relative error that is always divided by the new error.
RelativeErrorByNew(ed, c, oldEpoch, newEpoch) ==
  LET Scale(rel, scale) ==
        IF DivRaises(rel, scale) THEN [exc |-> "ZeroDivisionError", val |-> None]
        ELSE [exc |-> "", val |-> FDiv(rel, scale)]
      Relative(rel, learning_rate) ==
        IF ~c.relativeErrorAlsoRelativeToLearningRate THEN [exc |-> "", val |-> rel]
        ELSE IF DivRaises(learning_rate, c.defaultLearningRate)
             THEN [exc |-> "ZeroDivisionError", val |-> None]
        ELSE Scale(rel, FDiv(learning_rate, c.defaultLearningRate))
      Divide(diff, denom) ==
        IF DivRaises(diff, denom) THEN [exc |-> "ZeroDivisionError", val |-> None]
        ELSE Relative(FDiv(diff, denom),
                      get_most_recent_learning_rate(ed, c, newEpoch, FALSE))
      Compare(old, new) ==
        IF old.exc # "" THEN [exc |-> old.exc, val |-> None]
        ELSE IF new.exc # "" THEN [exc |-> new.exc, val |-> None]
        ELSE IF old.value = None \/ new.value = None THEN [exc |-> "", val |-> None]
        ELSE IF old.key # new.key THEN [exc |-> "", val |-> None]
        ELSE Divide(FSub(new.value, old.value), FAbs(new.value))
  IN Compare(get_epoch_error_key_value(ed, c, oldEpoch),
             get_epoch_error_key_value(ed, c, newEpoch))

\* calc_relative_error: [exc, val], val None when there is nothing to compare.
calc_relative_error(ed, c, oldEpoch, newEpoch) ==
  LET Scale(rel, scale) ==
        IF DivRaises(rel, scale) THEN [exc |-> "ZeroDivisionError", val |-> None]
        ELSE [exc |-> "", val |-> FDiv(rel, scale)]
      Relative(rel, learning_rate) ==
        IF ~c.relativeErrorAlsoRelativeToLearningRate THEN [exc |-> "", val |-> rel]
        ELSE IF DivRaises(learning_rate, c.defaultLearningRate)
             THEN [exc |-> "ZeroDivisionError", val |-> None]
        ELSE Scale(rel, FDiv(learning_rate, c.defaultLearningRate))
      Divide(diff, denom) ==
        IF DivRaises(diff, denom) THEN [exc |-> "ZeroDivisionError", val |-> None]
        ELSE Relative(FDiv(diff, denom),
                      get_most_recent_learning_rate(ed, c, newEpoch, FALSE))
      Compare(old, new) ==
        IF old.exc # "" THEN [exc |-> old.exc, val |-> None]
        ELSE IF new.exc # "" THEN [exc |-> new.exc, val |-> None]
        ELSE IF old.value = None \/ new.value = None THEN [exc |-> "", val |-> None]
        ELSE IF old.key # new.key THEN [exc |-> "", val |-> None]
        ELSE Divide(FSub(new.value, old.value),
                    IF c.relativeErrorDivByOld THEN FAbs(old.value) ELSE FAbs(new.value))
  IN Compare(get_epoch_error_key_value(ed, c, oldEpoch),
             get_epoch_error_key_value(ed, c, newEpoch))

\* ----------------------------------------------------------------- policies

\* ConstantLearningRate.calc_learning_rate_for_epoch: walk back over records
\* whose rate is None.
\* A ConstantLearningRate that gives the default rate when the last record
\* before the epoch has an absent rate.
ConstantStopsAtGap(ed, c, epoch) ==
  LET From(last_epoch) ==
        IF last_epoch = NoEpoch THEN [exc |-> "", val |-> c.defaultLearningRate]
        ELSE IF ed[last_epoch].learningRate = None
             THEN [exc |-> "", val |-> c.defaultLearningRate]
        ELSE [exc |-> "", val |-> ed[last_epoch].learningRate]
  IN From(get_last_epoch(ed, epoch))

\* How often the body of the loop of ConstantLearningRate.calc_learning_rate_for_epoch
\* runs.
RECURSIVE ConstantLearningRate_iterations(_, _)
ConstantLearningRate_iterations(ed, epoch) ==
  LET From(last_epoch) ==
        IF last_epoch = NoEpoch THEN 1
        ELSE IF ed[last_epoch].learningRate = None
             THEN 1 + ConstantLearningRate_iterations(ed, last_epoch)
        ELSE 1
  IN From(get_last_epoch(ed, epoch))

RECURSIVE ConstantLearningRate_calc(_, _, _)
ConstantLearningRate_calc(ed, c, epoch) ==
  LET From(last_epoch) ==
        IF last_epoch = NoEpoch THEN [exc |-> "", val |-> c.defaultLearningRate]
        ELSE IF ed[last_epoch].learningRate = None
             THEN ConstantLearningRate_calc(ed, c, last_epoch)
        ELSE [exc |-> "", val |-> ed[last_epoch].learningRate]
  IN From(get_last_epoch(ed, epoch))

\* A NewbobRelative that decays when the relative error is below the threshold.
DecayWhenBelow(ed, c, epoch) ==
  LET Decide(learning_rate, relative_error) ==
        IF relative_error.exc # "" THEN [exc |-> relative_error.exc, val |-> None]
        ELSE IF relative_error.val = None THEN [exc |-> "", val |-> learning_rate]
        ELSE IF FLess(relative_error.val, c.relativeErrorThreshold)
             THEN [exc |-> "", val |-> FMul(learning_rate, c.learningRateDecayFactor)]
        ELSE [exc |-> "", val |-> learning_rate]
      Prev(last_epoch, learning_rate, last2_epoch) ==
        IF learning_rate = None THEN [exc |-> "", val |-> c.defaultLearningRate]
        ELSE IF last2_epoch = NoEpoch THEN [exc |-> "", val |-> learning_rate]
        ELSE Decide(learning_rate, calc_relative_error(ed, c, last2_epoch, last_epoch))
      From(last_epoch) ==
        IF last_epoch = NoEpoch THEN [exc |-> "", val |-> c.defaultLearningRate]
        ELSE Prev(last_epoch, ed[last_epoch].learningRate, get_last_epoch(ed, last_epoch))
  IN From(get_last_epoch(ed, epoch))

\* A NewbobRelative that decays also when there is no relative error.
DecayOnMissingError(ed, c, epoch) ==
  LET Decide(learning_rate, relative_error) ==
        IF relative_error.exc # "" THEN [exc |-> relative_error.exc, val |-> None]
        ELSE IF relative_error.val = None
             THEN [exc |-> "", val |-> FMul(learning_rate, c.learningRateDecayFactor)]
        ELSE IF FGreater(relative_error.val, c.relativeErrorThreshold)
             THEN [exc |-> "", val |-> FMul(learning_rate, c.learningRateDecayFactor)]
        ELSE [exc |-> "", val |-> learning_rate]
      Prev(last_epoch, learning_rate, last2_epoch) ==
        IF learning_rate = None THEN [exc |-> "", val |-> c.defaultLearningRate]
        ELSE IF last2_epoch = NoEpoch THEN [exc |-> "", val |-> learning_rate]
        ELSE Decide(learning_rate, calc_relative_error(ed, c, last2_epoch, last_epoch))
      From(last_epoch) ==
        IF last_epoch = NoEpoch THEN [exc |-> "", val |-> c.defaultLearningRate]
        ELSE Prev(last_epoch, ed[last_epoch].learningRate, get_last_epoch(ed, last_epoch))
  IN From(get_last_epoch(ed, epoch))

\* NewbobRelative.calc_learning_rate_for_epoch
NewbobRelative_calc(ed, c, epoch) ==
  LET Decide(learning_rate, relative_error) ==
        IF relative_error.exc # "" THEN [exc |-> relative_error.exc, val |-> None]
        ELSE IF relative_error.val = None THEN [exc |-> "", val |-> learning_rate]
        ELSE IF FGreater(relative_error.val, c.relativeErrorThreshold)
             THEN [exc |-> "", val |-> FMul(learning_rate, c.learningRateDecayFactor)]
        ELSE [exc |-> "", val |-> learning_rate]
      Prev(last_epoch, learning_rate, last2_epoch) ==
        IF learning_rate = None THEN [exc |-> "", val |-> c.defaultLearningRate]
        ELSE IF last2_epoch = NoEpoch THEN [exc |-> "", val |-> learning_rate]
        ELSE Decide(learning_rate, calc_relative_error(ed, c, last2_epoch, last_epoch))
      From(last_epoch) ==
        IF last_epoch = NoEpoch THEN [exc |-> "", val |-> c.defaultLearningRate]
        ELSE Prev(last_epoch, ed[last_epoch].learningRate, get_last_epoch(ed, last_epoch))
  IN From(get_last_epoch(ed, epoch))

\* A NewbobAbs that compares the errors of two epochs also when their keys differ.
CompareAcrossKeys(ed, c, epoch) ==
  LET Decide(learning_rate, old, new) ==
        IF old.exc # "" THEN [exc |-> old.exc, val |-> None]
        ELSE IF new.exc # "" THEN [exc |-> new.exc, val |-> None]
        ELSE IF old.value = None \/ new.value = None THEN [exc |-> "", val |-> learning_rate]
        ELSE IF FGreater(FSub(new.value, old.value), c.errorThreshold)
             THEN [exc |-> "", val |-> FMul(learning_rate, c.learningRateDecayFactor)]
        ELSE [exc |-> "", val |-> learning_rate]
      Prev(last_epoch, learning_rate, last2_epoch) ==
        IF learning_rate = None THEN [exc |-> "", val |-> c.defaultLearningRate]
        ELSE IF last2_epoch = NoEpoch THEN [exc |-> "", val |-> learning_rate]
        ELSE Decide(learning_rate,
                    get_epoch_error_key_value(ed, c, last2_epoch),
                    get_epoch_error_key_value(ed, c, last_epoch))
      From(last_epoch) ==
        IF last_epoch = NoEpoch THEN [exc |-> "", val |-> c.defaultLearningRate]
        ELSE Prev(last_epoch, ed[last_epoch].learningRate, get_last_epoch(ed, last_epoch))
  IN From(get_last_epoch(ed, epoch))

\* A NewbobAbs that starts from the rate of the epoch before the last one.
DecayFromOlderRate(ed, c, epoch) ==
  LET Decide(learning_rate, old, new) ==
        IF old.exc # "" THEN [exc |-> old.exc, val |-> None]
        ELSE IF new.exc # "" THEN [exc |-> new.exc, val |-> None]
        ELSE IF old.value = None \/ new.value = None THEN [exc |-> "", val |-> learning_rate]
        ELSE IF old.key # new.key THEN [exc |-> "", val |-> learning_rate]
        ELSE IF FGreater(FSub(new.value, old.value), c.errorThreshold)
             THEN [exc |-> "", val |-> FMul(learning_rate, c.learningRateDecayFactor)]
        ELSE [exc |-> "", val |-> learning_rate]
      Prev(last_epoch, learning_rate, last2_epoch) ==
        IF learning_rate = None THEN [exc |-> "", val |-> c.defaultLearningRate]
        ELSE IF last2_epoch = NoEpoch THEN [exc |-> "", val |-> learning_rate]
        ELSE Decide(ed[last2_epoch].learningRate,
                    get_epoch_error_key_value(ed, c, last2_epoch),
                    get_epoch_error_key_value(ed, c, last_epoch))
      From(last_epoch) ==
        IF last_epoch = NoEpoch THEN [exc |-> "", val |-> c.defaultLearningRate]
        ELSE Prev(last_epoch, ed[last_epoch].learningRate, get_last_epoch(ed, last_epoch))
  IN From(get_last_epoch(ed, epoch))

\* NewbobAbs.calc_learning_rate_for_epoch
NewbobAbs_calc(ed, c, epoch) ==
  LET Decide(learning_rate, old, new) ==
        IF old.exc # "" THEN [exc |-> old.exc, val |-> None]
        ELSE IF new.exc # "" THEN [exc |-> new.exc, val |-> None]
        ELSE IF old.value = None \/ new.value = None THEN [exc |-> "", val |-> learning_rate]
        ELSE IF old.key # new.key THEN [exc |-> "", val |-> learning_rate]
        ELSE IF FGreater(FSub(new.value, old.value), c.errorThreshold)
             THEN [exc |-> "", val |-> FMul(learning_rate, c.learningRateDecayFactor)]
        ELSE [exc |-> "", val |-> learning_rate]
      Prev(last_epoch, learning_rate, last2_epoch) ==
        IF learning_rate = None THEN [exc |-> "", val |-> c.defaultLearningRate]
        ELSE IF last2_epoch = NoEpoch THEN [exc |-> "", val |-> learning_rate]
        ELSE Decide(learning_rate,
                    get_epoch_error_key_value(ed, c, last2_epoch),
                    get_epoch_error_key_value(ed, c, last_epoch))
      From(last_epoch) ==
        IF last_epoch = NoEpoch THEN [exc |-> "", val |-> c.defaultLearningRate]
        ELSE Prev(last_epoch, ed[last_epoch].learningRate, get_last_epoch(ed, last_epoch))
  IN From(get_last_epoch(ed, epoch))

\* The relative errors of the consecutive pairs of epochs.
RelativeErrors(ed, c, epochs) ==
  [i \in 1..(Len(epochs) - 1) |-> calc_relative_error(ed, c, epochs[i], epochs[i + 1])]

RECURSIVE FSum(_)
FSum(seq) == IF seq = <<>> THEN Num(0, 1) ELSE FAdd(Head(seq), FSum(Tail(seq)))

\* NewbobMultiEpoch._calc_mean_relative_error: the first failure propagates, any
\* None makes the mean None, else numpy.mean.
NewbobMultiEpoch_calc_mean_relative_error(ed, c, epochs) ==
  LET Mean(errors, n) ==
        IF \E i \in 1..n : errors[i].exc # ""
        THEN [exc |-> errors[CHOOSE i \in 1..n :
                               /\ errors[i].exc # ""
                               /\ \A j \in 1..(i - 1) : errors[j].exc = ""].exc,
              val |-> None]
        ELSE IF \E i \in 1..n : errors[i].val = None THEN [exc |-> "", val |-> None]
        ELSE [exc |-> "", val |-> FDiv(FSum([i \in 1..n |-> errors[i].val]), Num(n, 1))]
  IN Mean(RelativeErrors(ed, c, epochs), Len(epochs) - 1)

\* A mean over the last numEpochs epochs, without the extra one for the pairs.
MeanWithoutExtraEpoch(ed, c, epoch) ==
  LET Over(last_epochs) ==
        IF Len(last_epochs) <= 1 THEN [exc |-> "", val |-> None]
        ELSE NewbobMultiEpoch_calc_mean_relative_error(ed, c, last_epochs)
  IN Over(last_epochs_for_epoch(ed, epoch, c.numEpochs))

\* NewbobMultiEpoch._calc_recent_mean_relative_error
NewbobMultiEpoch_calc_recent_mean_relative_error(ed, c, epoch) ==
  LET Over(last_epochs) ==
        IF Len(last_epochs) <= 1 THEN [exc |-> "", val |-> None]
        ELSE NewbobMultiEpoch_calc_mean_relative_error(ed, c, last_epochs)
  IN Over(last_epochs_for_epoch(ed, epoch, c.numEpochs + 1))

\* A NewbobMultiEpoch that updates the rate at every epoch.
UpdateAtEveryEpoch(ed, c, epoch) ==
  LET Decide(learning_rate, mean_relative_error) ==
        IF mean_relative_error.exc # "" THEN [exc |-> mean_relative_error.exc, val |-> None]
        ELSE IF mean_relative_error.val = None THEN [exc |-> "", val |-> learning_rate]
        ELSE IF FGreater(mean_relative_error.val, c.relativeErrorThreshold)
             THEN [exc |-> "", val |-> FMul(learning_rate, c.learningRateDecayFactor)]
        ELSE [exc |-> "", val |-> FMul(learning_rate, c.learningRateGrowthFactor)]
  IN Decide(get_most_recent_learning_rate(ed, c, epoch, TRUE),
            NewbobMultiEpoch_calc_recent_mean_relative_error(ed, c, epoch))

\* NewbobMultiEpoch.calc_learning_rate_for_epoch
NewbobMultiEpoch_calc(ed, c, epoch) ==
  LET Decide(learning_rate, mean_relative_error) ==
        IF mean_relative_error.exc # "" THEN [exc |-> mean_relative_error.exc, val |-> None]
        ELSE IF mean_relative_error.val = None THEN [exc |-> "", val |-> learning_rate]
        ELSE IF FGreater(mean_relative_error.val, c.relativeErrorThreshold)
             THEN [exc |-> "", val |-> FMul(learning_rate, c.learningRateDecayFactor)]
        ELSE [exc |-> "", val |-> FMul(learning_rate, c.learningRateGrowthFactor)]
      Update(learning_rate) ==
        IF c.updateInterval > 1 /\ epoch % c.updateInterval # 1
        THEN [exc |-> "", val |-> learning_rate]
        ELSE Decide(learning_rate,
                    NewbobMultiEpoch_calc_recent_mean_relative_error(ed, c, epoch))
  IN Update(get_most_recent_learning_rate(ed, c, epoch, TRUE))

\* The policy hook of the configured class (learning_rate_control_type).
calc_learning_rate_for_epoch(ed, c, epoch) ==
  IF c.policy = "constant" THEN ConstantLearningRate_calc(ed, c, epoch)
  ELSE IF c.policy = "newbob_rel" THEN NewbobRelative_calc(ed, c, epoch)
  ELSE IF c.policy = "newbob_abs" THEN NewbobAbs_calc(ed, c, epoch)
  ELSE NewbobMultiEpoch_calc(ed, c, epoch)

\* ---------------------------------------------------------------- scheduler

\* The rates of the last minNumEpochsPerNewLearningRate epochs before epoch.
LastLrs(ed, c, epoch) ==
  LET Rates(es) == [i \in 1..Len(es) |-> ed[es[i]].learningRate]
  IN Rates(last_epochs_for_epoch(ed, epoch, c.minNumEpochsPerNewLearningRate))

\* A hold-over test that holds the rate when the last rates are all the same.
HoldWhenIdentical(ed, c, epoch) ==
  LET Holds(last_lrs) ==
        /\ c.minNumEpochsPerNewLearningRate > 1
        /\ Len(last_lrs) = c.minNumEpochsPerNewLearningRate
        /\ Cardinality({last_lrs[i] : i \in 1..Len(last_lrs)}) = 1
  IN Holds(LastLrs(ed, c, epoch))

\* A hold-over test without the case of fewer records than the hold-over length.
HoldOnlyWhenDistinct(ed, c, epoch) ==
  LET Holds(last_lrs) ==
        /\ c.minNumEpochsPerNewLearningRate > 1
        /\ Cardinality({last_lrs[i] : i \in 1..Len(last_lrs)}) >= 2
  IN Holds(LastLrs(ed, c, epoch))

\* The hold-over test of calc_new_learnign_rate_for_epoch.
HoldOver(ed, c, epoch) ==
  LET Holds(last_lrs) ==
        /\ c.minNumEpochsPerNewLearningRate > 1
        /\ \/ Cardinality({last_lrs[i] : i \in 1..Len(last_lrs)}) >= 2
           \/ (0 < Len(last_lrs) /\ Len(last_lrs) < c.minNumEpochsPerNewLearningRate)
  IN Holds(LastLrs(ed, c, epoch))

\* The policy's proposal without the clamp.
NotClamped(c, learning_rate) == learning_rate

\* The policy's proposal clamped to the minimum learning rate.
Clamped(c, learning_rate) ==
  IF FLess(learning_rate, c.minLearningRate) THEN c.minLearningRate ELSE learning_rate

\* A hold-over that carries the oldest of the last rates.
HoldOldestRate(ed, c, epoch) ==
  LET Held(last_lrs) == [exc |-> "", val |-> last_lrs[1]]
      Policy(proposed) ==
        IF proposed.exc # "" THEN proposed
        ELSE [exc |-> "", val |-> Clamped(c, proposed.val)]
  IN IF HoldOver(ed, c, epoch) THEN Held(LastLrs(ed, c, epoch))
     ELSE Policy(calc_learning_rate_for_epoch(ed, c, epoch))

\* calc_new_learnign_rate_for_epoch: [exc, val].
calc_new_learnign_rate_for_epoch(ed, c, epoch) ==
  LET Held(last_lrs) == [exc |-> "", val |-> last_lrs[Len(last_lrs)]]
      Policy(proposed) ==
        IF proposed.exc # "" THEN proposed
        ELSE [exc |-> "", val |-> Clamped(c, proposed.val)]
  IN IF HoldOver(ed, c, epoch) THEN Held(LastLrs(ed, c, epoch))
     ELSE Policy(calc_learning_rate_for_epoch(ed, c, epoch))

\* A get_learning_rate_for_epoch that computes the rate anew also for an epoch
\* that has a record.
RecomputeStoredRate(ed, c, epoch) ==
  LET Set(new) ==
        IF new.exc # "" THEN [exc |-> new.exc, val |-> None, ed |-> ed]
        ELSE [exc |-> "", val |-> new.val,
              ed |-> IF epoch \in DOMAIN ed
                     THEN [ed EXCEPT ![epoch].learningRate = new.val]
                     ELSE set_default_learning_rate_for_epoch(ed, epoch, new.val)]
  IN IF ~(epoch >= 1) THEN [exc |-> "AssertionError", val |-> None, ed |-> ed]
     ELSE Set(calc_new_learnign_rate_for_epoch(ed, c, epoch))

\* A get_learning_rate_for_epoch without the assertion on the epoch.
AcceptAnyEpoch(ed, c, epoch) ==
  LET Set(new) ==
        IF new.exc # "" THEN [exc |-> new.exc, val |-> None, ed |-> ed]
        ELSE [exc |-> "", val |-> new.val,
              ed |-> set_default_learning_rate_for_epoch(ed, epoch, new.val)]
  IN IF epoch \in DOMAIN ed
     THEN [exc |-> "", val |-> ed[epoch].learningRate, ed |-> ed]
     ELSE Set(calc_new_learnign_rate_for_epoch(ed, c, epoch))

\* get_learning_rate_for_epoch: [exc, val, ed], ed the store after the call.
get_learning_rate_for_epoch(ed, c, epoch) ==
  LET Set(new) ==
        IF new.exc # "" THEN [exc |-> new.exc, val |-> None, ed |-> ed]
        ELSE [exc |-> "", val |-> new.val,
              ed |-> set_default_learning_rate_for_epoch(ed, epoch, new.val)]
  IN IF ~(epoch >= 1) THEN [exc |-> "AssertionError", val |-> None, ed |-> ed]
     ELSE IF epoch \in DOMAIN ed
          THEN [exc |-> "", val |-> ed[epoch].learningRate, ed |-> ed]
     ELSE IF ed = ListStore
          THEN [exc |-> "AttributeError", val |-> None, ed |-> ed]
     ELSE Set(calc_new_learnign_rate_for_epoch(ed, c, epoch))

\* ------------------------------------------------------------ error reports

\* A reported error map gives each key a tagged value: [t |-> "float", v |-> f],
\* [t |-> "dict", v |-> a map of tagged values] or [t |-> "int", v |-> f] (a value
\* that is not a float).
Flt(f) == [t |-> "float", v |-> f]

\* A Python int as a reported value: not an instance of float.
IntVal(i) == [t |-> "int", v |-> <<i, 1, "int">>]

\* A nested map of one output's values as a reported value.
Nested(d) == [t |-> "dict", v |-> d]

\* isinstance(v, float) on a stored value: the floats are the pairs.
IsFloatValue(v) == Len(v) = 2

\* k1[k1.index(":") + 1:] when ":" is in k1, else k1.
StripToColon(k1) ==
  LET at == {i \in 1..Len(k1) : CharAt(k1, i) = ":"}
  IN IF at = {} THEN k1
     ELSE SubSeq(k1, (CHOOSE i \in at : \A j \in at : i <= j) + 1, Len(k1))

\* A flattening that gives name_sub keys also to a map of one output.
FlattenEntryOfAnySize(k, v) ==
  {<<k \o "_" \o StripToColon(k1), v[k1]>> : k1 \in DOMAIN v}

\* The (key, value) pairs that one nested entry k -> v is replaced by.
FlattenEntry(k, v) ==
  IF Cardinality(DOMAIN v) = 1 THEN {<<k, v[CHOOSE k1 \in DOMAIN v : TRUE]>>}
  ELSE {<<k \o "_" \o StripToColon(k1), v[k1]>> : k1 \in DOMAIN v}

\* The copy of the error map with its nested entries flattened
\* (set_epoch_error's loop over list(error.items())).
Flatten(error) ==
  LET Build(plain, gen) ==
        [k \in plain \cup {g[1] : g \in gen} |->
           IF \E g \in gen : g[1] = k THEN (CHOOSE g \in gen : g[1] = k)[2] ELSE error[k]]
      Split(plain) ==
        Build(plain, UNION {FlattenEntry(k, error[k].v) : k \in DOMAIN error \ plain})
  IN Split({k \in DOMAIN error : error[k].t # "dict"})

\* A set_epoch_error without the assertion that the values are floats.
ReportWithoutCheck(ed, c, epoch, error) ==
  LET Update(ed1, flat) ==
        [exc |-> "",
         ed |-> [ed1 EXCEPT ![epoch].error =
                    DictUpdate(@, [k \in DOMAIN flat |-> flat[k].v])]]
      Created(made) ==
        IF made.exc # "" THEN [exc |-> made.exc, ed |-> ed]
        ELSE Update(made.ed, Flatten(error))
  IN IF epoch \notin DOMAIN ed
     THEN Created(get_learning_rate_for_epoch(ed, c, epoch))
     ELSE Update(ed, Flatten(error))

\* A set_epoch_error that replaces the error map of the epoch by the reported one.
ReportResets(ed, c, epoch, error) ==
  LET Update(ed1, flat) ==
        IF \E k \in DOMAIN flat : flat[k].t # "float"
        THEN [exc |-> "AssertionError", ed |-> ed1]
        ELSE [exc |-> "",
              ed |-> [ed1 EXCEPT ![epoch].error = [k \in DOMAIN flat |-> flat[k].v]]]
      Created(made) ==
        IF made.exc # "" THEN [exc |-> made.exc, ed |-> ed]
        ELSE Update(made.ed, Flatten(error))
  IN IF epoch \notin DOMAIN ed
     THEN Created(get_learning_rate_for_epoch(ed, c, epoch))
     ELSE Update(ed, Flatten(error))

\* A set_epoch_error that creates the record of a new epoch without a rate.
ReportWithoutRate(ed, c, epoch, error) ==
  LET Update(ed1, flat) ==
        IF \E k \in DOMAIN flat : flat[k].t # "float"
        THEN [exc |-> "AssertionError", ed |-> ed1]
        ELSE [exc |-> "",
              ed |-> [ed1 EXCEPT ![epoch].error =
                         DictUpdate(@, [k \in DOMAIN flat |-> flat[k].v])]]
  IN IF epoch \notin DOMAIN ed
     THEN Update(StorePut(ed, epoch, EpochData(None, ErrNone)), Flatten(error))
     ELSE Update(ed, Flatten(error))

\* set_epoch_error: [exc, ed], ed the store after the call.  The record of a new
\* epoch is created before the values are checked.
set_epoch_error(ed, c, epoch, error) ==
  LET Update(ed1, flat) ==
        IF \E k \in DOMAIN flat : flat[k].t # "float"
        THEN [exc |-> "AssertionError", ed |-> ed1]
        ELSE [exc |-> "",
              ed |-> [ed1 EXCEPT ![epoch].error =
                         DictUpdate(@, [k \in DOMAIN flat |-> flat[k].v])]]
      Created(made) ==
        IF made.exc # "" THEN [exc |-> made.exc, ed |-> ed]
        ELSE Update(made.ed, Flatten(error))
  IN IF epoch \notin DOMAIN ed
     THEN Created(get_learning_rate_for_epoch(ed, c, epoch))
     ELSE Update(ed, Flatten(error))

\* -------------------------------------------------------------- persistence

\* repr of a float or None as a token of the file's text: a literal, a name, or a
\* negated name.
ReprFloat(f) ==
  IF f = None THEN [tok |-> "name", id |-> "None", v |-> None]
  ELSE IF f = NaN THEN [tok |-> "name", id |-> "nan", v |-> None]
  ELSE IF f = PosInf THEN [tok |-> "name", id |-> "inf", v |-> None]
  ELSE IF f = NegInf THEN [tok |-> "neg", id |-> "inf", v |-> None]
  ELSE [tok |-> "lit", id |-> "", v |-> f]

\* better_repr of a dict of floats: its items in the order of the sorted keys.
ReprDict(d) ==
  LET ks == SortedStrs(DOMAIN d)
  IN [i \in 1..Len(ks) |-> <<ks[i], ReprFloat(d[ks[i]])>>]

\* simple_obj_repr of an EpochData: the class name and its __init__ arguments.
simple_obj_repr(data) ==
  [call |-> "EpochData",
   learningRate |-> ReprFloat(data.learningRate),
   error |-> [t |-> "dict", items |-> ReprDict(data.error), f |-> ReprFloat(None)]]

\* better_repr(self.epochData): the records in the order of the sorted epochs.
better_repr(ed) ==
  LET es == SortedInts(DOMAIN ed)
  IN [i \in 1..Len(es) |-> <<es[i], simple_obj_repr(ed[es[i]])>>]

\* Globals without nan.
LoadGlobalsInfOnly == [id \in {"inf"} |-> PosInf]

\* The globals that load() hands to eval.
LoadGlobals == [id \in {"nan", "inf"} |-> IF id = "nan" THEN NaN ELSE PosInf]

\* eval of a float token: [exc, val].
EvalFloat(tok) ==
  IF tok.tok = "lit" THEN [exc |-> "", val |-> tok.v]
  ELSE IF tok.id = "None" THEN [exc |-> "", val |-> None]
  ELSE IF tok.id \notin DOMAIN LoadGlobals THEN [exc |-> "NameError", val |-> None]
  ELSE IF tok.tok = "neg" THEN [exc |-> "", val |-> FNeg(LoadGlobals[tok.id])]
  ELSE [exc |-> "", val |-> LoadGlobals[tok.id]]

\* eval of a dict display of floats: later items replace earlier ones.
EvalDict(items) ==
  LET ks == {items[i][1] : i \in 1..Len(items)}
      last(k) == CHOOSE i \in 1..Len(items) :
                   items[i][1] = k /\ \A j \in 1..Len(items) : items[j][1] = k => j <= i
  IN [k \in ks |-> EvalFloat(items[last(k)][2]).val]

DictFails(items) == \E i \in 1..Len(items) : EvalFloat(items[i][2]).exc # ""

\* eval of one EpochData(...) call; the name resolves through ObjAsDict(self).
EvalEpochData(obj) ==
  LET lr == EvalFloat(obj.learningRate)
      errf == EvalFloat(obj.error.f).val
      err == IF obj.error.t = "dict" THEN ErrDict(EvalDict(obj.error.items))
             ELSE IF errf = None THEN ErrNone
             ELSE ErrFloat(errf)
  IN IF obj.call # "EpochData" THEN [exc |-> "NameError", val |-> None]
     ELSE IF lr.exc # "" THEN [exc |-> lr.exc, val |-> None]
     ELSE IF obj.error.t = "dict" /\ DictFails(obj.error.items)
          THEN [exc |-> "NameError", val |-> None]
     ELSE IF obj.error.t # "dict" /\ EvalFloat(obj.error.f).exc # ""
          THEN [exc |-> "NameError", val |-> None]
     ELSE [exc |-> "", val |-> EpochData(lr.val, err)]

\* A file is NoFile or the sequence of the chunks written to it: the text of a
\* store, a newline, or a text cut short by a failed write.
NoFile == <<[kind |-> "nofile", body |-> <<>>]>>

TextChunk(body) == [kind |-> "text", body |-> body]
NewlineChunk == [kind |-> "nl", body |-> <<>>]
PartialChunk == [kind |-> "partial", body |-> <<>>]

\* The file holds one complete text, with or without the final newline: what
\* eval can parse.
IsCompleteText(file) ==
  /\ Len(file) \in {1, 2}
  /\ file[1].kind = "text"
  /\ (Len(file) = 2 => file[2].kind = "nl")

\* load(): eval of what the file holds: [exc, ed].
load(file) ==
  LET body == file[1].body
      es == {body[i][1] : i \in 1..Len(body)}
      last(e) == CHOOSE i \in 1..Len(body) :
                   body[i][1] = e /\ \A j \in 1..Len(body) : body[j][1] = e => j <= i
      bad == {i \in 1..Len(body) : EvalEpochData(body[i][2]).exc # ""}
  IN IF ~IsCompleteText(file)
     THEN [exc |-> "SyntaxError", ed |-> EmptyDict]
     ELSE IF bad # {}
          THEN [exc |-> EvalEpochData(body[CHOOSE i \in bad : TRUE][2]).exc, ed |-> EmptyDict]
     ELSE [exc |-> "", ed |-> [e \in es |-> EvalEpochData(body[last(e)][2]).val]]

\* The store after the per-epoch default rates are set, in __init__.
RECURSIVE SetDefaults(_, _, _)
SetDefaults(ed, rates, epochs) ==
  IF epochs = <<>> THEN ed
  ELSE SetDefaults(set_default_learning_rate_for_epoch(ed, Head(epochs), rates[Head(epochs)]),
                   rates, Tail(epochs))

\* An __init__ that does not load the file.
ConstructWithoutLoad(c, file) ==
  [exc |-> "",
   ed |-> SetDefaults(EmptyDict, c.defaultLearningRates,
                      SortedInts(DOMAIN c.defaultLearningRates))]

\* An __init__ that sets the per-epoch default rates after loading the file.
ConstructOverridesAfterLoad(c, file) ==
  IF c.filename # "" /\ file # NoFile
  THEN IF load(file).exc # "" \/ load(file).ed = ListStore THEN load(file)
       ELSE [exc |-> "",
             ed |-> SetDefaults(load(file).ed, c.defaultLearningRates,
                                SortedInts(DOMAIN c.defaultLearningRates))]
  ELSE [exc |-> "",
        ed |-> SetDefaults(EmptyDict, c.defaultLearningRates,
                           SortedInts(DOMAIN c.defaultLearningRates))]

\* LearningRateControl.__init__ on the file the backing path holds: [exc, ed].
Construct(c, file) ==
  LET ed0 == SetDefaults(EmptyDict, c.defaultLearningRates,
                         SortedInts(DOMAIN c.defaultLearningRates))
  IN IF c.filename # "" /\ file # NoFile THEN load(file)
     ELSE [exc |-> "", ed |-> ed0]

\* ------------------------------------------------------------- best epoch

\* Python's (v1, ep1) < (v2, ep2) on (score, epoch) pairs.
PairLess(a, b) ==
  IF a.v = b.v /\ ~IsNaN(a.v) THEN a.ep < b.ep ELSE FLess(a.v, b.v)

\* Python's min(values): the first item no later item is less than.
RECURSIVE MinPair(_, _)
MinPair(values, best) ==
  IF values = <<>> THEN best
  ELSE MinPair(Tail(values), IF PairLess(Head(values), best) THEN Head(values) ELSE best)

\* values[-n:]
LastN(values, n) ==
  IF n >= Len(values) THEN values ELSE SubSeq(values, Len(values) - n + 1, Len(values))

\* A search that also takes an epoch whose score equals the latest score.
BestMayBeTheLatest(ed, c, last_epoch, first_epoch, filter_score, only_last_n, min_score_dist) ==
  LET n == last_epoch - first_epoch + 1
      kv(ep) == get_epoch_error_key_value(ed, c, ep)
      all == [i \in 1..n |-> [key |-> kv(first_epoch + i - 1).key,
                              v |-> kv(first_epoch + i - 1).value,
                              ep |-> first_epoch + i - 1]]
      HasValue(x) == x.v # None
      values0 == SelectSeq(all, HasValue)
      last_key == values0[Len(values0)].key
      latest_score == values0[Len(values0)].v
      SameKey(x) == x.key = last_key
      values1 == SelectSeq(values0, SameKey)
      NotOver(x) == FLessEq(x.v, filter_score)
      values2 == SelectSeq(values1, NotOver)
      values3 == IF only_last_n >= 1 THEN LastN(values2, only_last_n) ELSE values2
      Better(x) == FLessEq(FAdd(x.v, min_score_dist), latest_score)
      values4 == SelectSeq(values3, Better)
  IN IF first_epoch > last_epoch THEN [exc |-> "", best |-> NoEpoch]
     ELSE IF \E ep \in first_epoch..last_epoch : kv(ep).exc # ""
          THEN [exc |-> "AssertionError", best |-> NoEpoch]
     ELSE IF values0 = <<>> THEN [exc |-> "", best |-> NoEpoch]
     ELSE IF values2 = <<>> THEN [exc |-> "", best |-> NoEpoch]
     ELSE IF values4 = <<>> THEN [exc |-> "", best |-> NoEpoch]
     ELSE [exc |-> "", best |-> MinPair(Tail(values4), Head(values4)).ep]

\* A search that takes the last only_last_n epochs before it drops the scores
\* over filter_score.
LastNBeforeFilter(ed, c, last_epoch, first_epoch, filter_score, only_last_n, min_score_dist) ==
  LET n == last_epoch - first_epoch + 1
      kv(ep) == get_epoch_error_key_value(ed, c, ep)
      all == [i \in 1..n |-> [key |-> kv(first_epoch + i - 1).key,
                              v |-> kv(first_epoch + i - 1).value,
                              ep |-> first_epoch + i - 1]]
      HasValue(x) == x.v # None
      values0 == SelectSeq(all, HasValue)
      last_key == values0[Len(values0)].key
      latest_score == values0[Len(values0)].v
      SameKey(x) == x.key = last_key
      values1 == SelectSeq(values0, SameKey)
      values2 == IF only_last_n >= 1 THEN LastN(values1, only_last_n) ELSE values1
      NotOver(x) == FLessEq(x.v, filter_score)
      values3 == SelectSeq(values2, NotOver)
      Better(x) == FLess(FAdd(x.v, min_score_dist), latest_score)
      values4 == SelectSeq(values3, Better)
  IN IF first_epoch > last_epoch THEN [exc |-> "", best |-> NoEpoch]
     ELSE IF \E ep \in first_epoch..last_epoch : kv(ep).exc # ""
          THEN [exc |-> "AssertionError", best |-> NoEpoch]
     ELSE IF values0 = <<>> THEN [exc |-> "", best |-> NoEpoch]
     ELSE IF values3 = <<>> THEN [exc |-> "", best |-> NoEpoch]
     ELSE IF values4 = <<>> THEN [exc |-> "", best |-> NoEpoch]
     ELSE [exc |-> "", best |-> MinPair(Tail(values4), Head(values4)).ep]

\* A search without the filter on the distance to the latest score.
WithoutMinDistance(ed, c, last_epoch, first_epoch, filter_score, only_last_n, min_score_dist) ==
  LET n == last_epoch - first_epoch + 1
      kv(ep) == get_epoch_error_key_value(ed, c, ep)
      all == [i \in 1..n |-> [key |-> kv(first_epoch + i - 1).key,
                              v |-> kv(first_epoch + i - 1).value,
                              ep |-> first_epoch + i - 1]]
      HasValue(x) == x.v # None
      values0 == SelectSeq(all, HasValue)
      last_key == values0[Len(values0)].key
      SameKey(x) == x.key = last_key
      values1 == SelectSeq(values0, SameKey)
      NotOver(x) == FLessEq(x.v, filter_score)
      values2 == SelectSeq(values1, NotOver)
      values3 == IF only_last_n >= 1 THEN LastN(values2, only_last_n) ELSE values2
  IN IF first_epoch > last_epoch THEN [exc |-> "", best |-> NoEpoch]
     ELSE IF \E ep \in first_epoch..last_epoch : kv(ep).exc # ""
          THEN [exc |-> "AssertionError", best |-> NoEpoch]
     ELSE IF values0 = <<>> THEN [exc |-> "", best |-> NoEpoch]
     ELSE IF values2 = <<>> THEN [exc |-> "", best |-> NoEpoch]
     ELSE [exc |-> "", best |-> MinPair(Tail(values3), Head(values3)).ep]

\* get_last_best_epoch: [exc, best], best an epoch or NoEpoch.
get_last_best_epoch(ed, c, last_epoch, first_epoch, filter_score, only_last_n, min_score_dist) ==
  LET n == last_epoch - first_epoch + 1
      kv(ep) == get_epoch_error_key_value(ed, c, ep)
      all == [i \in 1..n |-> [key |-> kv(first_epoch + i - 1).key,
                              v |-> kv(first_epoch + i - 1).value,
                              ep |-> first_epoch + i - 1]]
      HasValue(x) == x.v # None
      values0 == SelectSeq(all, HasValue)
      last_key == values0[Len(values0)].key
      latest_score == values0[Len(values0)].v
      SameKey(x) == x.key = last_key
      values1 == SelectSeq(values0, SameKey)
      NotOver(x) == FLessEq(x.v, filter_score)
      values2 == SelectSeq(values1, NotOver)
      values3 == IF only_last_n >= 1 THEN LastN(values2, only_last_n) ELSE values2
      Better(x) == FLess(FAdd(x.v, min_score_dist), latest_score)
      values4 == SelectSeq(values3, Better)
  IN IF first_epoch > last_epoch THEN [exc |-> "", best |-> NoEpoch]
     ELSE IF \E ep \in first_epoch..last_epoch : kv(ep).exc # ""
          THEN [exc |-> "AssertionError", best |-> NoEpoch]
     ELSE IF values0 = <<>> THEN [exc |-> "", best |-> NoEpoch]
     ELSE IF values2 = <<>> THEN [exc |-> "", best |-> NoEpoch]
     ELSE IF values4 = <<>> THEN [exc |-> "", best |-> NoEpoch]
     ELSE [exc |-> "", best |-> MinPair(Tail(values4), Head(values4)).ep]

\* --------------------------------------------------------------- the bounds

\* The training loop calls with the epochs 1..MaxEpoch (and with epoch 0).
MaxEpoch == 3

\* The epochs of the runs that save and resume.
MaxPersistEpoch == 2

\* The epochs of the runs that ask for the rates of the epochs 1, 2, 3, ... in order.
MaxSeqEpoch == 5

\* The epochs of the stores that the best epoch is searched in.
MaxBestEpoch == 5

\* -------------------------------------------------------- the configurations

Policies == {"constant", "newbob_rel", "newbob_abs", "newbob_multi_epoch"}

NoErrorMeasureKey == [kind |-> "none", keys |-> <<>>]

\* No per-epoch default rates.
NoRates == [e \in {} |-> None]

\* The defaults of load_initial_kwargs_from_config, with a window of two epochs
\* and an update at every epoch for NewbobMultiEpoch.
BaseConfig(policy) ==
  [policy |-> policy,
   defaultLearningRate |-> Num(1, 1),
   minLearningRate |-> Num(0, 1),
   defaultLearningRates |-> NoRates,
   errorMeasureKey |-> NoErrorMeasureKey,
   relativeErrorAlsoRelativeToLearningRate |-> FALSE,
   minNumEpochsPerNewLearningRate |-> 0,
   relativeErrorDivByOld |-> FALSE,
   filename |-> "",
   relativeErrorThreshold |-> Num(-1, 100),
   errorThreshold |-> Num(-1, 100),
   learningRateDecayFactor |-> Num(1, 2),
   learningRateGrowthFactor |-> Num(1, 1),
   numEpochs |-> 2,
   updateInterval |-> 1]

\* Schedulers without a backing file: the defaults; a hold-over of two epochs; a
\* minimum rate of 3/4 with a hold-over; and that with the rates of the epochs 1
\* and 2 configured as 1 and 1/4.
Tuning(p, f, m, r) ==
  [BaseConfig(p) EXCEPT !.minLearningRate = f,
                        !.minNumEpochsPerNewLearningRate = m,
                        !.defaultLearningRates = r]

SchedConfigs ==
  UNION {{Tuning(p, Num(0, 1), 0, NoRates),
          Tuning(p, Num(0, 1), 2, NoRates),
          Tuning(p, Num(3, 4), 2, NoRates),
          Tuning(p, Num(3, 4), 2, <<Num(1, 1), Num(1, 4)>>)} : p \in Policies}

\* Schedulers constructed on a backing file, with a hold-over of two epochs.
LoadedConfigs ==
  {[BaseConfig(p) EXCEPT !.filename = "lr.data",
                         !.minNumEpochsPerNewLearningRate = 2] : p \in Policies}

\* The error maps the training loop reports.
Report(key, v) == [k \in {key} |-> Flt(v)]

ErrorInputs ==
  {Report("dev_score", Num(1, 1)), Report("train_score", Num(1, 1))}

\* Flat maps of floats over the keys dev_score and train_score (the empty map and
\* the maps that give one value to one or to both keys).
FlatReports ==
  {[k \in ks |-> Flt(v)] :
     ks \in SUBSET {"dev_score", "train_score"}, v \in {Num(1, 1), Num(99, 100)}}

\* What the backing file may hold when the scheduler is constructed: a store
\* with nan and -inf errors, a store with an absent rate, a text of the old
\* format (the error is one float).
StoreWithSpecials ==
  [e \in {1} |-> EpochData(Num(1, 1),
       ErrDict([k \in {"dev_score", "train_score"} |-> IF k = "dev_score" THEN NaN ELSE NegInf]))]

StoreWithAbsentRate ==
  [e \in {1, 2} |-> IF e = 1 THEN EpochData(Num(1, 2), ErrNone) ELSE EpochData(None, ErrNone)]

OldFormatText ==
  <<<<1, [call |-> "EpochData",
          learningRate |-> ReprFloat(Num(1, 1)),
          error |-> [t |-> "float", items |-> <<>>, f |-> ReprFloat(PosInf)]]>>>>

FileOf(body) == <<TextChunk(body), NewlineChunk>>

\* The text [], which eval turns into a list and better_repr writes for one.
ListText == better_repr(ListStore)

InitFiles ==
  {FileOf(better_repr(StoreWithSpecials)),
   FileOf(better_repr(StoreWithAbsentRate)),
   FileOf(OldFormatText)}

\* ------------------------------------------------------------ state machine

VARIABLES
  cfg,         \* the configuration of the scheduler
  epochData,   \* self.epochData: epoch -> [learningRate, error]
  targetFile,  \* what self.filename holds
  tmpFile,     \* what self.filename + ".new_tmp" holds
  pc,          \* "idle", or the statement of save() that runs next
  ret,         \* the last call: its name, arguments, exception and result
  lastSaved,   \* the store of the last completed save (of the file, before one)
  procs        \* the schedulers that run as processes of their own on one
               \* backing path (none in the runs of one scheduler)

vars == <<cfg, epochData, targetFile, tmpFile, pc, ret, lastSaved, procs>>

\* No other processes.
NoProcs == <<>>

Ret(op, epoch, exc, val) ==
  [op |-> op, epoch |-> epoch, exc |-> exc, val |-> val, args |-> <<>>, best |-> NoEpoch]

\* No save has completed and the file does not exist.
NoStore == [e \in {NoEpoch} |-> EpochData(None, ErrNone)]

\* The scheduler after construction on what the backing path holds.
InitWith(configs, files) ==
  /\ cfg \in configs
  /\ targetFile \in (IF cfg.filename = "" THEN {NoFile} ELSE files)
  /\ tmpFile = NoFile
  /\ epochData = Construct(cfg, targetFile).ed
  /\ pc = "idle"
  /\ ret = Ret("__init__", 0, Construct(cfg, targetFile).exc, None)
  /\ lastSaved = IF targetFile = NoFile THEN NoStore ELSE load(targetFile).ed
  /\ procs = NoProcs

Init == InitWith(SchedConfigs \cup LoadedConfigs, InitFiles)

\* rate_for_epoch(epoch)
GetLearningRateForEpoch(epoch) ==
  LET r == get_learning_rate_for_epoch(epochData, cfg, epoch)
  IN /\ pc = "idle"
     /\ epochData' = r.ed
     /\ ret' = Ret("get_learning_rate_for_epoch", epoch, r.exc, r.val)
     /\ UNCHANGED <<cfg, procs,targetFile, tmpFile, pc, lastSaved>>

\* report_error(epoch, error)
SetEpochError(epoch, error) ==
  LET r == set_epoch_error(epochData, cfg, epoch, error)
  IN /\ pc = "idle"
     /\ epochData' = r.ed
     /\ ret' = Ret("set_epoch_error", epoch, r.exc, None)
     /\ UNCHANGED <<cfg, procs,targetFile, tmpFile, pc, lastSaved>>

\* best_epoch_in_range(first, last, max_error, only_last_n, min_distance)
GetLastBestEpoch(last_epoch, first_epoch, filter_score, only_last_n, min_score_dist) ==
  LET r == get_last_best_epoch(epochData, cfg, last_epoch, first_epoch,
                               filter_score, only_last_n, min_score_dist)
  IN /\ pc = "idle"
     /\ ret' = [op |-> "get_last_best_epoch", epoch |-> last_epoch, exc |-> r.exc,
                val |-> None, best |-> r.best,
                args |-> <<first_epoch, filter_score, only_last_n, min_score_dist>>]
     /\ UNCHANGED <<cfg, procs,epochData, targetFile, tmpFile, pc, lastSaved>>

\* A save() that opens the file itself for writing.
SaveOpenInPlace ==
  /\ pc = "idle"
  /\ ret' = Ret("save", 0, "", None)
  /\ IF cfg.filename = ""
     THEN UNCHANGED <<targetFile, pc>>
     ELSE targetFile' = <<>> /\ pc' = "write"
  /\ UNCHANGED <<cfg, procs,epochData, tmpFile, lastSaved>>

\* A save() that opens the temporary file also without a file name.
SaveOpenWithoutPath ==
  /\ pc = "idle"
  /\ ret' = Ret("save", 0, "", None)
  /\ tmpFile' = <<>> /\ pc' = "write"
  /\ UNCHANGED <<cfg, procs,epochData, targetFile, lastSaved>>

\* save(): nothing without a file name, else open(tmp_filename, "w").
SaveOpen ==
  /\ pc = "idle"
  /\ ret' = Ret("save", 0, "", None)
  /\ IF cfg.filename = ""
     THEN UNCHANGED <<tmpFile, pc>>
     ELSE tmpFile' = <<>> /\ pc' = "write"
  /\ UNCHANGED <<cfg, procs,epochData, targetFile, lastSaved>>

\* f.write(better_repr(self.epochData))
SaveWrite ==
  /\ pc = "write"
  /\ tmpFile' = Append(tmpFile, TextChunk(better_repr(epochData)))
  /\ pc' = "newline"
  /\ UNCHANGED <<cfg, procs,epochData, targetFile, ret, lastSaved>>

\* f.write("\n")
SaveNewline ==
  /\ pc = "newline"
  /\ tmpFile' = Append(tmpFile, NewlineChunk)
  /\ pc' = "close"
  /\ UNCHANGED <<cfg, procs,epochData, targetFile, ret, lastSaved>>

\* f.close()
SaveClose ==
  /\ pc = "close"
  /\ pc' = "rename"
  /\ UNCHANGED <<cfg, procs,epochData, targetFile, tmpFile, ret, lastSaved>>

\* A save() that empties the store once the file is written.
SaveRenameClears ==
  /\ pc = "rename"
  /\ targetFile' = tmpFile
  /\ tmpFile' = NoFile
  /\ pc' = "idle"
  /\ lastSaved' = epochData
  /\ epochData' = EmptyDict
  /\ UNCHANGED <<cfg, procs,ret>>

\* os.rename(tmp_filename, self.filename)
SaveRename ==
  /\ pc = "rename"
  /\ targetFile' = tmpFile
  /\ tmpFile' = NoFile
  /\ pc' = "idle"
  /\ lastSaved' = epochData
  /\ UNCHANGED <<cfg, procs,epochData, ret>>

\* A statement of save() raises (a full disk, say) and save() is left: a write
\* that fails leaves a text that is cut short.
SaveFails ==
  /\ pc \in {"write", "newline", "close", "rename"}
  /\ tmpFile' = IF pc = "write" THEN <<PartialChunk>> ELSE tmpFile
  /\ pc' = "idle"
  /\ ret' = Ret("save", 0, "IOError", None)
  /\ UNCHANGED <<cfg, procs,epochData, targetFile, lastSaved>>

\* A construction that creates the backing file when it does not exist.
ResumeCreatesFile ==
  /\ cfg.filename # ""
  /\ epochData' = Construct(cfg, targetFile).ed
  /\ pc' = "idle"
  /\ ret' = Ret("__init__", 0, Construct(cfg, targetFile).exc, None)
  /\ targetFile' = IF targetFile = NoFile THEN FileOf(better_repr(EmptyDict)) ELSE targetFile
  /\ UNCHANGED <<cfg, procs,tmpFile, lastSaved>>

\* The process is interrupted at any point, also inside save(), and a scheduler
\* with the same configuration is constructed on the same backing path.
Resume ==
  /\ cfg.filename # ""
  /\ epochData' = Construct(cfg, targetFile).ed
  /\ pc' = "idle"
  /\ ret' = Ret("__init__", 0, Construct(cfg, targetFile).exc, None)
  /\ UNCHANGED <<cfg, procs,targetFile, tmpFile, lastSaved>>

\* The training loop asks for rates and reports errors, in any order.
Next ==
  \/ \E epoch \in 0..MaxEpoch : GetLearningRateForEpoch(epoch)
  \/ \E epoch \in 0..MaxEpoch, error \in ErrorInputs : SetEpochError(epoch, error)

Spec == Init /\ [][Next]_vars

\* ------------------------------------------------- runs that save and resume

PersistConfigs ==
  {[BaseConfig("newbob_rel") EXCEPT !.filename = "lr.data"],
   [BaseConfig("constant") EXCEPT !.filename = "lr.data",
                                  !.defaultLearningRates = <<Num(1, 4), Num(1, 8)>>],
   BaseConfig("constant")}

PersistErrorInputs ==
  {[k \in {"dev_score", "train_score"} |-> IF k = "dev_score" THEN Flt(NaN) ELSE Flt(NegInf)]}

PersistFiles ==
  {NoFile, FileOf(better_repr(StoreWithAbsentRate)), FileOf(OldFormatText),
   FileOf(ListText)}

PersistInit == InitWith(PersistConfigs, PersistFiles)

PersistNext ==
  \/ \E epoch \in 1..MaxPersistEpoch : GetLearningRateForEpoch(epoch)
  \/ \E epoch \in 1..MaxPersistEpoch, error \in PersistErrorInputs :
        SetEpochError(epoch, error)
  \/ SaveOpen
  \/ SaveWrite
  \/ SaveNewline
  \/ SaveClose
  \/ SaveRename
  \/ SaveFails
  \/ Resume

SpecPersist == PersistInit /\ [][PersistNext]_vars

\* ------------------------------- runs that ask for the epochs 1, 2, 3, ... in order

\* The policies without and with a hold-over, and NewbobMultiEpoch with an update
\* at every second and at every third epoch and a growth factor of 3/2.
SeqConfigs ==
  {[BaseConfig(p) EXCEPT !.minNumEpochsPerNewLearningRate = m] :
     p \in Policies, m \in {0, 2, 3}}
    \cup {[BaseConfig("newbob_multi_epoch") EXCEPT
             !.updateInterval = u, !.learningRateGrowthFactor = Num(3, 2)] : u \in {2, 3}}
    \cup {[BaseConfig("newbob_abs") EXCEPT !.minLearningRate = Num(3, 8)]}

SeqErrorInputs ==
  {Report("dev_score", Num(1, 1)), Report("dev_score", Num(99, 100))}

SeqInit == InitWith(SeqConfigs, {NoFile})

\* The first epoch without a record: the records are those of 1..NextEpoch - 1.
NextEpoch == Cardinality(DOMAIN epochData) + 1

SeqNext ==
  \/ \E epoch \in 1..MaxSeqEpoch :
        epoch <= NextEpoch /\ GetLearningRateForEpoch(epoch)
  \/ \E epoch \in 1..MaxSeqEpoch, error \in SeqErrorInputs :
        epoch <= NextEpoch /\ SetEpochError(epoch, error)

SpecSeq == SeqInit /\ [][SeqNext]_vars

\* ------------------------------------------------ searches for the best epoch

BestVals == {Num(7, 10), Num(4, 5), Num(17, 20), Num(9, 10), Num(19, 20)}

\* Stores whose epochs 1..MaxBestEpoch all have a dev_score, and stores whose
\* epochs have no error, a dev_score of 7/10 or 1, or a train_score of 7/10.
BestStores ==
  {[e \in 1..MaxBestEpoch |-> EpochData(Num(1, 1), ErrDict([k \in {"dev_score"} |-> f[e]]))] :
     f \in [1..MaxBestEpoch -> BestVals]}
    \cup
  {[e \in 1..MaxBestEpoch |->
      EpochData(Num(1, 1),
                IF f[e] = 0 THEN ErrNone
                ELSE IF f[e] = 1 THEN ErrDict([k \in {"dev_score"} |-> Num(7, 10)])
                ELSE IF f[e] = 2 THEN ErrDict([k \in {"dev_score"} |-> Num(1, 1)])
                ELSE ErrDict([k \in {"train_score"} |-> Num(7, 10)]))] :
     f \in [1..MaxBestEpoch -> 0..3]}

BestInit ==
  /\ cfg = BaseConfig("constant")
  /\ epochData \in BestStores
  /\ targetFile = NoFile
  /\ tmpFile = NoFile
  /\ pc = "idle"
  /\ ret = Ret("__init__", 0, "", None)
  /\ lastSaved = NoStore
  /\ procs = NoProcs

\* Searches of all epochs without and with a minimum distance, and searches of
\* ranges with a greatest score and a number of last epochs (one of an empty
\* range).
BestNext ==
  \/ \E min_score_dist \in {Num(0, 1), Num(3, 10)} :
        GetLastBestEpoch(MaxBestEpoch, 1, PosInf, -1, min_score_dist)
  \/ \E call \in {<<MaxBestEpoch, 2, Num(4, 5), 2, Num(0, 1)>>,
                  <<MaxBestEpoch, 1, Num(17, 20), 3, Num(1, 20)>>,
                  <<MaxBestEpoch - 1, 2, PosInf, 1, Num(0, 1)>>,
                  <<3, 1, Num(9, 10), 2, Num(1, 10)>>,
                  <<MaxBestEpoch, 1, Num(4, 5), -1, Num(1, 10)>>,
                  <<1, 2, PosInf, -1, Num(0, 1)>>} :
        GetLastBestEpoch(call[1], call[2], call[3], call[4], call[5])

SpecBest == BestInit /\ [][BestNext]_vars

\* ------------------------------------- runs that report nested and invalid maps

\* The epochs of the runs that report nested and invalid error maps.
MaxReportEpoch == 2

ReportConfigs == {BaseConfig("newbob_rel"), BaseConfig("constant")}

\* A flat map; a map with the values of two outputs; a map with the value of one
\* output; a map with a float and an int; a map with an int among the values of
\* two outputs.
ReportErrorInputs ==
  {Report("dev_score", Num(1, 1)),
   [k \in {"dev_score"} |->
      Nested([k1 \in {"cost:out1", "cost:out2"} |->
                IF k1 = "cost:out1" THEN Flt(Num(1, 1)) ELSE Flt(Num(99, 100))])],
   [k \in {"train_score"} |-> Nested([k1 \in {"cost:out1"} |-> Flt(Num(1, 2))])],
   [k \in {"dev_score", "train_score"} |->
      IF k = "dev_score" THEN Flt(Num(1, 2)) ELSE IntVal(1)],
   [k \in {"train_score"} |->
      Nested([k1 \in {"a", "b"} |-> IF k1 = "a" THEN Flt(Num(1, 2)) ELSE IntVal(1)])]}

ReportInit == InitWith(ReportConfigs, {NoFile})

ReportNext ==
  \/ \E epoch \in 1..MaxReportEpoch : GetLearningRateForEpoch(epoch)
  \/ \E epoch \in 1..MaxReportEpoch, error \in ReportErrorInputs :
        SetEpochError(epoch, error)

SpecReport == ReportInit /\ [][ReportNext]_vars

\* ------------------------------- two schedulers that save on one backing path

\* Two processes with the same configuration, so with the same backing path and
\* the same temporary path.  procs[p] is the process p: its store, the statement
\* of save() it runs next, the exception of its last save, and its open file
\* object f: the file it is on ("tmp", "target" once the temporary file was
\* renamed under it, "unlinked" once that target was replaced, "closed"), its
\* offset in chunks and the chunks that are written but not yet flushed.
Procs == {1, 2}

\* The zero bytes that a write behind the end of a file leaves before it.
HoleChunk == [kind |-> "hole", body |-> <<>>]

\* The file after the write of the chunks at the offset pos.
WriteAt(file, pos, chunks) ==
  IF chunks = <<>> THEN file
  ELSE [i \in 1..(IF Len(file) > pos + Len(chunks) THEN Len(file) ELSE pos + Len(chunks)) |->
          IF i > pos /\ i <= pos + Len(chunks) THEN chunks[i - pos]
          ELSE IF i <= Len(file) THEN file[i]
          ELSE HoleChunk]

\* Both schedulers are constructed before the file exists; the process 1 has
\* asked for the rate of the epoch 1, the process 2 for those of the epochs 1, 2.
ConcInit ==
  /\ cfg = [BaseConfig("constant") EXCEPT !.filename = "lr.data"]
  /\ targetFile = NoFile
  /\ tmpFile = NoFile
  /\ epochData = EmptyDict
  /\ pc = "idle"
  /\ ret = Ret("__init__", 0, "", None)
  /\ lastSaved = NoStore
  /\ procs =
       [p \in Procs |->
          [epochData |->
             IF p = 1 THEN get_learning_rate_for_epoch(EmptyDict, cfg, 1).ed
             ELSE get_learning_rate_for_epoch(
                    get_learning_rate_for_epoch(EmptyDict, cfg, 1).ed, cfg, 2).ed,
           pc |-> "idle", exc |-> "", on |-> "closed", pos |-> 0, buf |-> <<>>]]

\* A save() that takes a lock: it starts only while no other process saves.
ConcSaveOpenLocked(p) ==
  /\ cfg.filename # ""
  /\ procs[p].pc = "idle"
  /\ \A q \in Procs \ {p} : procs[q].pc = "idle"
  /\ tmpFile' = <<>>
  /\ procs' = [procs EXCEPT ![p].pc = "write", ![p].exc = "", ![p].on = "tmp",
                            ![p].pos = 0, ![p].buf = <<>>]
  /\ UNCHANGED <<cfg, epochData, targetFile, pc, ret, lastSaved>>

\* open(tmp_filename, "w") of the process p: the temporary file is created, or
\* the one that is there is cut to no bytes, with the file objects that are on it.
ConcSaveOpen(p) ==
  /\ cfg.filename # ""
  /\ procs[p].pc = "idle"
  /\ tmpFile' = <<>>
  /\ procs' = [procs EXCEPT ![p].pc = "write", ![p].exc = "", ![p].on = "tmp",
                            ![p].pos = 0, ![p].buf = <<>>]
  /\ UNCHANGED <<cfg, epochData, targetFile, pc, ret, lastSaved>>

\* f.write(better_repr(self.epochData)): the text goes to the buffer of f.
ConcSaveWrite(p) ==
  /\ procs[p].pc = "write"
  /\ procs' = [procs EXCEPT ![p].pc = "newline",
                            ![p].buf = Append(@, TextChunk(better_repr(procs[p].epochData)))]
  /\ UNCHANGED <<cfg, epochData, targetFile, tmpFile, pc, ret, lastSaved>>

\* f.write("\n")
ConcSaveNewline(p) ==
  /\ procs[p].pc = "newline"
  /\ procs' = [procs EXCEPT ![p].pc = "close", ![p].buf = Append(@, NewlineChunk)]
  /\ UNCHANGED <<cfg, epochData, targetFile, tmpFile, pc, ret, lastSaved>>

\* The buffer of f is written to the file that f is on, at the offset of f: a
\* full buffer is written before f.close().
ConcFlush(p) ==
  /\ procs[p].pc \in {"newline", "close"}
  /\ procs[p].buf # <<>>
  /\ tmpFile' = IF procs[p].on = "tmp"
                THEN WriteAt(tmpFile, procs[p].pos, procs[p].buf) ELSE tmpFile
  /\ targetFile' = IF procs[p].on = "target"
                   THEN WriteAt(targetFile, procs[p].pos, procs[p].buf) ELSE targetFile
  /\ procs' = [procs EXCEPT ![p].pos = @ + Len(procs[p].buf), ![p].buf = <<>>]
  /\ UNCHANGED <<cfg, epochData, pc, ret, lastSaved>>

\* f.close(): what is left in the buffer is written.
ConcSaveClose(p) ==
  /\ procs[p].pc = "close"
  /\ tmpFile' = IF procs[p].on = "tmp"
                THEN WriteAt(tmpFile, procs[p].pos, procs[p].buf) ELSE tmpFile
  /\ targetFile' = IF procs[p].on = "target"
                   THEN WriteAt(targetFile, procs[p].pos, procs[p].buf) ELSE targetFile
  /\ procs' = [procs EXCEPT ![p].pc = "rename", ![p].on = "closed",
                            ![p].pos = 0, ![p].buf = <<>>]
  /\ UNCHANGED <<cfg, epochData, pc, ret, lastSaved>>

\* os.rename(tmp_filename, self.filename): it raises when the temporary path
\* holds no file; else the file there gets the name of the backing file, the
\* file objects on it stay on it, and the file that had the name is unlinked.
ConcSaveRename(p) ==
  /\ procs[p].pc = "rename"
  /\ IF tmpFile = NoFile
     THEN /\ procs' = [procs EXCEPT ![p].pc = "idle", ![p].exc = "OSError"]
          /\ UNCHANGED <<targetFile, tmpFile>>
     ELSE /\ targetFile' = tmpFile
          /\ tmpFile' = NoFile
          /\ procs' = [q \in Procs |->
                         [procs[q] EXCEPT
                            !.pc = IF q = p THEN "idle" ELSE @,
                            !.on = IF @ = "tmp" THEN "target"
                                   ELSE IF @ = "target" THEN "unlinked"
                                   ELSE @]]
  /\ UNCHANGED <<cfg, epochData, pc, ret, lastSaved>>

ConcNext ==
  \/ \E p \in Procs : ConcSaveOpen(p)
  \/ \E p \in Procs : ConcSaveWrite(p)
  \/ \E p \in Procs : ConcSaveNewline(p)
  \/ \E p \in Procs : ConcFlush(p)
  \/ \E p \in Procs : ConcSaveClose(p)
  \/ \E p \in Procs : ConcSaveRename(p)

SpecConc == ConcInit /\ [][ConcNext]_vars

\* ------------------------------------- runs that exercise the policies' rules

MaxPolicyEpoch == 3

\* Schedulers on a backing file, without hold-over: the four policies (the
\* multi-epoch one with a growth factor of 3/2 and an update at every second
\* epoch), and NewbobRelative with the relative error divided by the old error
\* and with the relative error relative to the learning rate (and the rates of
\* the epochs 1 and 2 configured as 1 and 2).
PolicyConfigs ==
  LET OnFile(p) == [BaseConfig(p) EXCEPT !.filename = "lr.data"]
  IN {OnFile("constant"), OnFile("newbob_rel"), OnFile("newbob_abs"),
      [OnFile("newbob_rel") EXCEPT !.relativeErrorDivByOld = TRUE],
      [OnFile("newbob_rel") EXCEPT !.relativeErrorAlsoRelativeToLearningRate = TRUE,
                                   !.defaultLearningRates = <<Num(1, 1), Num(2, 1)>>],
      [OnFile("newbob_multi_epoch") EXCEPT !.updateInterval = 2,
                                           !.learningRateGrowthFactor = Num(3, 2)]}

PolicyErrorInputs ==
  {Report("dev_score", Num(1, 1)), Report("dev_score", Num(99, 100)),
   Report("train_score", Num(1, 1))}

\* No file, or the file of a store whose second record has an absent rate.
PolicyFiles == {NoFile, FileOf(better_repr(StoreWithAbsentRate))}

PolicyInit == InitWith(PolicyConfigs, PolicyFiles)

PolicyNext ==
  \/ \E epoch \in 1..MaxPolicyEpoch : GetLearningRateForEpoch(epoch)
  \/ \E epoch \in 1..MaxPolicyEpoch, error \in PolicyErrorInputs :
        SetEpochError(epoch, error)

SpecPolicy == PolicyInit /\ [][PolicyNext]_vars

\* ------------------------------------------- resolutions of the error key

MaxKeys == 3

\* The keys an error map may have.
KeyUniverse ==
  {"old_format_score", "dev_score", "dev_score_output", "dev_score_output/output",
   "dev_score_output/output_b", "dev_score_output/a", "dev_error", "train_score",
   "train_score_output", "train_error", "train_error_output", "cost"}

\* learning_rate_control_error_measure unset, one name, and a list of names.
KeyConfigs ==
  {[BaseConfig("constant") EXCEPT !.errorMeasureKey = k] :
     k \in {NoErrorMeasureKey,
            [kind |-> "str", keys |-> <<"train_error">>],
            [kind |-> "list", keys |-> <<"train_error", "cost">>]}}

\* A store whose epoch 1 has a record with up to MaxKeys of the keys (written
\* in the old format when the error is one float) and whose epoch 2 has none.
KeysInit ==
  /\ cfg \in KeyConfigs
  /\ epochData \in
       {[e \in {1} |-> EpochData(Num(1, 1), ErrDict([k \in K |-> Num(1, 1)]))] :
          K \in {S \in SUBSET KeyUniverse : Cardinality(S) <= MaxKeys}}
         \cup {[e \in {1} |-> EpochData(Num(1, 1), ErrFloat(Num(1, 1)))]}
  /\ targetFile = NoFile
  /\ tmpFile = NoFile
  /\ pc = "idle"
  /\ ret = Ret("__init__", 0, "", None)
  /\ lastSaved = NoStore
  /\ procs = NoProcs

\* error_key_for_epoch(epoch): the result is the key, NoKey for None.
GetErrorKey(epoch) ==
  /\ pc = "idle"
  /\ ret' = Ret("get_error_key", epoch, "", get_error_key(epochData, cfg, epoch))
  /\ UNCHANGED <<cfg, procs, epochData, targetFile, tmpFile, pc, lastSaved>>

KeysNext == \E epoch \in {1, 2} : GetErrorKey(epoch)

SpecKeys == KeysInit /\ [][KeysNext]_vars

\* ------------------------------------------- calls that set a default rate

MaxDefaultEpoch == 2

\* Stores whose epochs have no record or a record with an absent rate, the rate
\* 0 or the rate 1/2, without and with an error.
DefaultInit ==
  /\ cfg = BaseConfig("constant")
  /\ epochData \in
       UNION {[S -> {EpochData(r, err) :
                       r \in {None, Num(0, 1), Num(1, 2)},
                       err \in {ErrNone, ErrDict([k \in {"dev_score"} |-> Num(1, 1)])}}] :
                S \in SUBSET (1..MaxDefaultEpoch)}
  /\ targetFile = NoFile
  /\ tmpFile = NoFile
  /\ pc = "idle"
  /\ ret = Ret("__init__", 0, "", None)
  /\ lastSaved = NoStore
  /\ procs = NoProcs

\* set_default(epoch, rate)
SetDefaultLearningRateForEpoch(epoch, learningRate) ==
  /\ pc = "idle"
  /\ epochData' = set_default_learning_rate_for_epoch(epochData, epoch, learningRate)
  /\ ret' = Ret("set_default_learning_rate_for_epoch", epoch, "", learningRate)
  /\ UNCHANGED <<cfg, procs, targetFile, tmpFile, pc, lastSaved>>

DefaultNext ==
  \E epoch \in 1..MaxDefaultEpoch, learningRate \in {Num(1, 4), Num(1, 1)} :
     SetDefaultLearningRateForEpoch(epoch, learningRate)

SpecDefault == DefaultInit /\ [][DefaultNext]_vars

\* ------------------------------------------- runs that report the error 0.0

MaxZeroEpoch == 3

\* The policies that compute relative errors: divided by the new error, by the
\* old error, also by the ratio of the most recent rate (here the per-epoch
\* default rate 0.0) to the default rate, and the mean over several epochs.
ZeroConfigs ==
  {BaseConfig("newbob_rel"),
   [BaseConfig("newbob_rel") EXCEPT !.relativeErrorDivByOld = TRUE],
   [BaseConfig("newbob_rel") EXCEPT !.relativeErrorAlsoRelativeToLearningRate = TRUE,
                                    !.defaultLearningRates = <<Num(0, 1), Num(0, 1)>>],
   [BaseConfig("newbob_multi_epoch") EXCEPT !.updateInterval = 1]}

ZeroErrorInputs == {Report("dev_score", Num(0, 1)), Report("dev_score", Num(1, 1))}

ZeroInit == InitWith(ZeroConfigs, {NoFile})

ZeroNext ==
  \/ \E epoch \in 1..MaxZeroEpoch : GetLearningRateForEpoch(epoch)
  \/ \E epoch \in 1..MaxZeroEpoch, error \in ZeroErrorInputs :
        SetEpochError(epoch, error)

SpecZero == ZeroInit /\ [][ZeroNext]_vars

\* ---------------------------------------------------------------- properties

\* C1, as stated: every numeric rate that rate_for_epoch returns is at least the
\* configured minimum rate.
C1_RateAtLeastFloor ==
  (ret.op = "get_learning_rate_for_epoch" /\ ret.exc = "" /\ ret.val # None)
    => FLessEq(cfg.minLearningRate, ret.val)

\* C1: a rate that rate_for_epoch computes through the policy (the epoch has no
\* record and the hold-over does not apply) is at least the minimum rate; and
\* while every stored numeric rate is at least the minimum rate, so is every
\* numeric rate returned and every rate stored by the call.
C1_PolicyRateAtLeastFloor ==
  [][LET AtLeastFloor(ed) ==
           \A e \in DOMAIN ed :
              ed[e].learningRate = None \/ FLessEq(cfg.minLearningRate, ed[e].learningRate)
     IN /\ \A e \in 1..MaxEpoch :
             (/\ ret'.op = "get_learning_rate_for_epoch"
              /\ ret'.epoch = e
              /\ ret'.exc = ""
              /\ e \notin DOMAIN epochData
              /\ ~HoldOver(epochData, cfg, e))
             => (ret'.val # None /\ FLessEq(cfg.minLearningRate, ret'.val))
        /\ AtLeastFloor(epochData)
             => /\ AtLeastFloor(epochData')
                /\ (/\ ret'.op = "get_learning_rate_for_epoch"
                    /\ ret'.exc = ""
                    /\ ret'.val # None)
                   => FLessEq(cfg.minLearningRate, ret'.val)]_vars

\* The policy proposed a rate below the minimum rate 3/4 and the minimum rate
\* was returned and stored.
C1_Witness ==
  /\ ret.op = "get_learning_rate_for_epoch"
  /\ ret.exc = ""
  /\ cfg.policy = "newbob_rel"
  /\ cfg.minLearningRate = Num(3, 4)
  /\ cfg.defaultLearningRates = NoRates
  /\ ret.epoch = 3
  /\ ret.val = Num(3, 4)
  /\ epochData[3].learningRate = Num(3, 4)
  /\ epochData[2].learningRate = Num(1, 1)

\* C2: rate_for_epoch on an epoch with a stored rate returns that rate and
\* leaves the store as it is; no call changes a stored rate; and a call that
\* directly follows a call for the same epoch returns the same value.
C2_StoredRateIsReturned ==
  [][\A e \in 1..MaxEpoch :
        /\ (e \in DOMAIN epochData /\ epochData[e].learningRate # None)
             => /\ e \in DOMAIN epochData'
                /\ epochData'[e].learningRate = epochData[e].learningRate
                /\ (ret'.op = "get_learning_rate_for_epoch" /\ ret'.epoch = e)
                     => /\ ret'.exc = ""
                        /\ ret'.val = epochData[e].learningRate
                        /\ epochData' = epochData
        /\ (/\ ret.op = "get_learning_rate_for_epoch" /\ ret.epoch = e /\ ret.exc = ""
            /\ ret'.op = "get_learning_rate_for_epoch" /\ ret'.epoch = e)
             => (ret'.exc = "" /\ ret'.val = ret.val /\ epochData' = epochData)]_vars

\* The rate of an epoch was asked for after its error was reported, with a
\* history on which the policy now decays, and the stored rate was returned.
C2_Witness ==
  /\ ret.op = "get_learning_rate_for_epoch"
  /\ ret.exc = ""
  /\ ret.epoch = 3
  /\ cfg.policy = "newbob_rel"
  /\ cfg.minNumEpochsPerNewLearningRate = 0
  /\ DOMAIN epochData = {1, 2, 3}
  /\ \A e \in {1, 2, 3} : epochData[e].error = [k \in {"dev_score"} |-> Num(1, 1)]
  /\ epochData[3].learningRate = Num(1, 1)
  /\ ret.val = Num(1, 1)

\* C3, as stated: when the last m epochs before a new epoch e all carry the rate
\* r (at least the minimum rate), the rate computed for e is r.
C3_HoldWhenLastRatesIdentical ==
  [][\A e \in 1..MaxEpoch :
        LET m == cfg.minNumEpochsPerNewLearningRate
            W == {x \in DOMAIN epochData :
                    x < e /\ Cardinality({y \in DOMAIN epochData : x < y /\ y < e}) < m}
        IN (/\ ret'.op = "get_learning_rate_for_epoch"
            /\ ret'.epoch = e
            /\ e \notin DOMAIN epochData
            /\ m > 1
            /\ Cardinality(W) = m
            /\ \A a, b \in W : epochData[a].learningRate = epochData[b].learningRate
            /\ \A a \in W : /\ epochData[a].learningRate # None
                            /\ FLessEq(cfg.minLearningRate, epochData[a].learningRate))
           => \A a \in W : ret'.exc = "" /\ ret'.val = epochData[a].learningRate]_vars

\* C3: with m > 1, the rate of a new epoch e is the rate of the last record
\* before e when the last m records before e carry two different rates or when
\* there are fewer than m (and at least one) records before e; when the last m
\* records all carry the same rate, the rate is the policy's proposal, clamped.
C3_HoldWhenLastRatesDiffer ==
  [][\A e \in 1..MaxEpoch :
        LET m == cfg.minNumEpochsPerNewLearningRate
            W == {x \in DOMAIN epochData :
                    x < e /\ Cardinality({y \in DOMAIN epochData : x < y /\ y < e}) < m}
            last == CHOOSE x \in W : \A y \in W : y <= x
            p == calc_learning_rate_for_epoch(epochData, cfg, e)
        IN (/\ ret'.op = "get_learning_rate_for_epoch"
            /\ ret'.epoch = e
            /\ e \notin DOMAIN epochData
            /\ m > 1
            /\ W # {})
           => IF \/ Cardinality(W) < m
                 \/ \E a, b \in W : epochData[a].learningRate # epochData[b].learningRate
              THEN ret'.exc = "" /\ ret'.val = epochData[last].learningRate
              ELSE IF p.exc # "" THEN ret'.exc = p.exc
              ELSE /\ ret'.exc = ""
                   /\ ret'.val = (IF FLess(p.val, cfg.minLearningRate)
                                  THEN cfg.minLearningRate ELSE p.val)]_vars

\* The epochs 1 and 2 carry the different rates 1 and 1/4 and no improvement of
\* the error, and the rate returned for epoch 3 is the held 1/4, below what the
\* policy's clamped proposal would be.
C3_Witness ==
  /\ ret.op = "get_learning_rate_for_epoch"
  /\ ret.exc = ""
  /\ ret.epoch = 3
  /\ cfg.policy = "newbob_rel"
  /\ cfg.minNumEpochsPerNewLearningRate = 2
  /\ DOMAIN epochData = {1, 2, 3}
  /\ epochData[1].learningRate = Num(1, 1)
  /\ epochData[2].learningRate = Num(1, 4)
  /\ \A e \in {1, 2} : epochData[e].error = [k \in {"dev_score"} |-> Num(1, 1)]
  /\ epochData[3].error = EmptyDict
  /\ ret.val = Num(1, 4)

\* C4: asked for the epochs 1, 2, 3, ... in order from an empty store with
\* m > 1, the epochs 1..m carry one rate and two epochs at which the rate
\* changes are at least m apart.
C4_RateHeldForMinEpochs ==
  LET m == cfg.minNumEpochsPerNewLearningRate
      Changes == {e \in DOMAIN epochData :
                    /\ (e - 1) \in DOMAIN epochData
                    /\ epochData[e].learningRate # epochData[e - 1].learningRate}
  IN m > 1 =>
       /\ DOMAIN epochData = 1..Cardinality(DOMAIN epochData)
       /\ \A e \in DOMAIN epochData : e <= m => epochData[e].learningRate = epochData[1].learningRate
       /\ Changes \cap (1..m) = {}
       /\ \A a, b \in Changes : a < b => b - a >= m

\* With m = 2 the rate changed at the epochs 3 and 5, exactly m apart.
C4_Witness ==
  /\ cfg.minNumEpochsPerNewLearningRate = 2
  /\ DOMAIN epochData = 1..5
  /\ epochData[2].learningRate = Num(1, 1)
  /\ epochData[3].learningRate = Num(1, 2)
  /\ epochData[4].learningRate = Num(1, 2)
  /\ epochData[5].learningRate = Num(1, 4)

\* C5: the file at the backing path is absent until the first save completes
\* and then always holds one complete text, that of the store of the last
\* completed save; a save that fails leaves the file as it was.
C5_SaveIsAtomic ==
  /\ [](IF lastSaved = NoStore
        THEN targetFile = NoFile
        ELSE /\ IsCompleteText(targetFile)
             /\ load(targetFile).exc = ""
             /\ load(targetFile).ed = lastSaved)
  /\ [][(pc # "idle" /\ ret'.exc = "IOError") => targetFile' = targetFile]_vars

\* A write of a save failed and left a text cut short in the temporary file,
\* while the file holds the store of an earlier save of this run, which differs
\* from the current store.
C5_Witness ==
  /\ ret.op = "save"
  /\ ret.exc = "IOError"
  /\ pc = "idle"
  /\ tmpFile = <<PartialChunk>>
  /\ targetFile # NoFile
  /\ lastSaved # epochData
  /\ \E e \in DOMAIN lastSaved : "dev_score" \in DOMAIN lastSaved[e].error

\* C6: a scheduler constructed on the backing path directly after a completed
\* save holds the saved store: the same epochs, rates and error maps, with
\* absent rates, nan, inf and -inf.
C6_SaveLoadRoundTrip ==
  [][(/\ ret.op = "save" /\ ret.exc = "" /\ pc = "idle" /\ cfg.filename # ""
      /\ ret'.op = "__init__")
     => (ret'.exc = "" /\ epochData' = epochData)]_vars

\* A store with an absent rate, a nan error and a -inf error was saved and a
\* scheduler constructed on the file holds it.
C6_Witness ==
  /\ ret.op = "__init__"
  /\ ret.exc = ""
  /\ epochData = lastSaved
  /\ load(targetFile).ed = epochData
  /\ \E e \in DOMAIN epochData : epochData[e].learningRate = None
  /\ \E e \in DOMAIN epochData :
        "dev_score" \in DOMAIN epochData[e].error /\ epochData[e].error["dev_score"] = NaN
  /\ \E e \in DOMAIN epochData :
        "train_score" \in DOMAIN epochData[e].error
        /\ epochData[e].error["train_score"] = NegInf

\* C7: a scheduler constructed on a backing path that holds a file, after an
\* interruption at any point, holds exactly the store of the last completed
\* save, and rate_for_epoch returns the saved rate of every epoch of that store.
C7_ResumeRestoresLastSave ==
  (ret.op = "__init__" /\ cfg.filename # "" /\ targetFile # NoFile)
    => /\ ret.exc = ""
       /\ epochData = lastSaved
       /\ \A e \in DOMAIN lastSaved :
             e >= 1 => /\ get_learning_rate_for_epoch(epochData, cfg, e).exc = ""
                       /\ get_learning_rate_for_epoch(epochData, cfg, e).val
                            = lastSaved[e].learningRate

\* The run was interrupted inside a later save, after its write: the temporary
\* file is left behind and the scheduler holds the store of the save before,
\* which has a record that this run reported.
C7_Witness ==
  /\ ret.op = "__init__"
  /\ tmpFile # NoFile
  /\ Len(tmpFile) = 2
  /\ targetFile # NoFile
  /\ epochData = lastSaved
  /\ load(tmpFile).ed # lastSaved
  /\ \E e \in DOMAIN epochData : "dev_score" \in DOMAIN epochData[e].error

\* C8, as stated: NewbobRelative with the default rate 1, decay 1/2 and
\* threshold -1/100, dev_score 1 reported for epoch 1 and 99/100 for epoch 2:
\* the rate of epoch 3 is 1/2.
C8_ScenarioDecays ==
  [][(/\ cfg = BaseConfig("newbob_rel")
      /\ DOMAIN epochData = {1, 2}
      /\ epochData[1].error = [k \in {"dev_score"} |-> Num(1, 1)]
      /\ epochData[2].error = [k \in {"dev_score"} |-> Num(99, 100)]
      /\ ret'.op = "get_learning_rate_for_epoch"
      /\ ret'.epoch = 3)
     => (ret'.exc = "" /\ ret'.val = Num(1, 2))]_vars

\* C8: in that scenario the rates of the epochs 1 and 2 are 1 and the rate of
\* epoch 3 is 1: the relative error -1/99 is not above the threshold -1/100.
C8_ScenarioKeepsRate ==
  [][(/\ cfg = BaseConfig("newbob_rel")
      /\ DOMAIN epochData = {1, 2}
      /\ epochData[1].error = [k \in {"dev_score"} |-> Num(1, 1)]
      /\ epochData[2].error = [k \in {"dev_score"} |-> Num(99, 100)]
      /\ ret'.op = "get_learning_rate_for_epoch"
      /\ ret'.epoch = 3)
     => /\ epochData[1].learningRate = Num(1, 1)
        /\ epochData[2].learningRate = Num(1, 1)
        /\ ret'.exc = ""
        /\ ret'.val = Num(1, 1)
        /\ epochData'[3].learningRate = Num(1, 1)]_vars

\* The scenario's store after the rate of epoch 3 was asked for.
C8_Witness ==
  /\ cfg = BaseConfig("newbob_rel")
  /\ DOMAIN epochData = {1, 2, 3}
  /\ epochData[1].error = [k \in {"dev_score"} |-> Num(1, 1)]
  /\ epochData[2].error = [k \in {"dev_score"} |-> Num(99, 100)]
  /\ epochData[3].error = EmptyDict
  /\ ret.op = "get_learning_rate_for_epoch"
  /\ ret.epoch = 3
  /\ ret.val = Num(1, 1)

C10_GracefulDegradation ==
  [][\A e \in 1..MaxEpoch :
        LET prev == get_last_epoch(epochData, e)
            prev2 == get_last_epoch(epochData, prev)
        IN (/\ ret'.op = "get_learning_rate_for_epoch"
            /\ ret'.epoch = e
            /\ e \notin DOMAIN epochData
            /\ \/ prev = NoEpoch
               \/ prev2 = NoEpoch
               \/ epochData[prev].learningRate = None
               \/ DOMAIN epochData[prev].error = {}
               \/ DOMAIN epochData[prev2].error = {}
               \/ get_error_key(epochData, cfg, prev) # get_error_key(epochData, cfg, prev2))
           => /\ ret'.exc = ""
              /\ ret'.val # None
              /\ ret'.val = get_most_recent_learning_rate(epochData, cfg, e, TRUE)]_vars

\* C11: rate_for_epoch for an epoch below 1 fails with an assertion error and
\* leaves the store as it is, for every store and policy; report_error for an
\* epoch below 1 that has no record fails in the same way.
C11_EpochBelowOneFails ==
  [][/\ (ret'.op = "get_learning_rate_for_epoch" /\ ret'.epoch < 1)
          => (ret'.exc = "AssertionError" /\ epochData' = epochData)
     /\ (/\ ret'.op = "set_epoch_error"
         /\ ret'.epoch < 1
         /\ ret'.epoch \notin DOMAIN epochData)
          => (ret'.exc = "AssertionError" /\ epochData' = epochData)]_vars

\* report_error for the epoch 0 failed on a store that has the records of the
\* epochs 1 and 2, and the store has no record of the epoch 0.
C11_Witness ==
  /\ ret.op = "set_epoch_error"
  /\ ret.epoch = 0
  /\ ret.exc = "AssertionError"
  /\ DOMAIN epochData = {1, 2}
  /\ cfg.policy = "newbob_rel"

\* C12, as stated: in every reachable state, from an empty or a loaded store,
\* every epoch with a non-empty error map has a record whose rate is not absent.
C12_NoErrorWithoutRate ==
  \A e \in DOMAIN epochData :
     DOMAIN epochData[e].error # {} => epochData[e].learningRate # None

\* C12, amended: a store whose records all have a rate keeps that property over
\* every rate_for_epoch and report_error call, so from such a store no error map
\* is attached to a record without a rate;  report_error on an epoch without a
\* record creates the record with the rate rate_for_epoch would return, and the
\* reported values are in the error map of that record when the call succeeds.
C12_ReportCreatesTheRateFirst ==
  [][/\ (\A e \in DOMAIN epochData : epochData[e].learningRate # None)
          => (\A e \in DOMAIN epochData' : epochData'[e].learningRate # None)
     /\ \A e \in 1..MaxEpoch :
          (/\ ret'.op = "set_epoch_error"
           /\ ret'.epoch = e
           /\ e \notin DOMAIN epochData)
            => LET asked == get_learning_rate_for_epoch(epochData, cfg, e)
               IN IF asked.exc # ""
                  THEN ret'.exc = asked.exc /\ epochData' = epochData
                  ELSE /\ e \in DOMAIN epochData'
                       /\ epochData'[e].learningRate = asked.val
                       /\ \A o \in DOMAIN epochData : epochData'[o] = epochData[o]
                       /\ ret'.exc = "" => DOMAIN epochData'[e].error # {}]_vars

\* report_error for the epoch 3 on a store that had the records 1 and 2 with
\* their errors: the record of the epoch 3 has the rate that NewbobRelative
\* computes from them, and the reported error.
C12_Witness ==
  /\ cfg.policy = "newbob_rel"
  /\ cfg.filename = ""
  /\ cfg.minNumEpochsPerNewLearningRate = 0
  /\ ret.op = "set_epoch_error"
  /\ ret.epoch = 3
  /\ ret.exc = ""
  /\ DOMAIN epochData = {1, 2, 3}
  /\ epochData[1].error = [k \in {"dev_score"} |-> Num(1, 1)]
  /\ epochData[2].error = [k \in {"dev_score"} |-> Num(1, 1)]
  /\ epochData[3].error = [k \in {"train_score"} |-> Num(1, 1)]
  /\ epochData[3].learningRate = Num(1, 2)

\* C13: report_error merges and does not reset.  On every reachable store and
\* for all flat maps of floats m1 and m2, report_error(e, m1) followed by
\* report_error(e, m2) leaves the error map of e as the map before the two calls
\* updated by m1 and then by m2 (a key of m2 has m2's value, a key only in m1 has
\* m1's value, every other key keeps its value), and reporting one map twice
\* leaves the store that reporting it once leaves; and every report_error step
\* that succeeds changes the error map of its epoch by such an update and no
\* other error map.
C13_ReportsMerge ==
  /\ [](\A e \in 1..MaxPersistEpoch, m1 \in FlatReports :
          LET Vals(m) == [k \in DOMAIN m |-> m[k].v]
              Before(ed) == IF e \in DOMAIN ed THEN ed[e].error ELSE EmptyDict
              Twice(r1) ==
                r1.exc = "" =>
                  /\ set_epoch_error(r1.ed, cfg, e, m1) = r1
                  /\ \A m2 \in FlatReports :
                       LET Both(r2) ==
                             /\ r2.exc = ""
                             /\ r2.ed[e].error =
                                  DictUpdate(DictUpdate(Before(epochData), Vals(m1)), Vals(m2))
                             /\ \A k \in DOMAIN r2.ed[e].error :
                                  r2.ed[e].error[k] =
                                    IF k \in DOMAIN m2 THEN m2[k].v
                                    ELSE IF k \in DOMAIN m1 THEN m1[k].v
                                    ELSE epochData[e].error[k]
                       IN Both(set_epoch_error(r1.ed, cfg, e, m2))
          IN Twice(set_epoch_error(epochData, cfg, e, m1)))
  /\ [][\A e \in 1..MaxPersistEpoch :
          (ret'.op = "set_epoch_error" /\ ret'.epoch = e /\ ret'.exc = "")
            => /\ \E m \in PersistErrorInputs :
                    epochData'[e].error =
                      DictUpdate(IF e \in DOMAIN epochData THEN epochData[e].error ELSE EmptyDict,
                                 [k \in DOMAIN m |-> m[k].v])
               /\ \A o \in DOMAIN epochData' \ {e} :
                    o \in DOMAIN epochData /\ epochData'[o].error = epochData[o].error]_vars

\* The error of the epoch 1 was reported on a loaded record that had the score
\* of the old format; the record has the old score and the two reported values.
C13_Witness ==
  /\ ret.op = "set_epoch_error"
  /\ ret.epoch = 1
  /\ ret.exc = ""
  /\ 1 \in DOMAIN epochData
  /\ epochData[1].error =
       [k \in {"old_format_score", "dev_score", "train_score"} |->
          IF k = "old_format_score" THEN PosInf ELSE IF k = "dev_score" THEN NaN ELSE NegInf]

\* C14: report_error with a map that has a value that is neither a float nor a
\* one-level map of floats fails with an assertion error; the failed call merges
\* none of the map's keys: every epoch that had a record has the error map it
\* had, and a record that the call created has an empty error map; and every
\* error value in every reachable store is a float.
C14_InvalidReportMergesNothing ==
  /\ [](/\ \A e \in DOMAIN epochData :
             \A k \in DOMAIN epochData[e].error : IsFloatValue(epochData[e].error[k])
        /\ \A e \in 1..MaxReportEpoch, m \in ReportErrorInputs :
             LET Invalid(v) ==
                   \/ v.t = "int"
                   \/ v.t = "dict" /\ \E k1 \in DOMAIN v.v : v.v[k1].t # "float"
                 Fails(r) ==
                   /\ r.exc = "AssertionError"
                   /\ \A o \in DOMAIN r.ed :
                        r.ed[o].error =
                          IF o \in DOMAIN epochData THEN epochData[o].error ELSE EmptyDict
             IN (\E k \in DOMAIN m : Invalid(m[k]))
                  => Fails(set_epoch_error(epochData, cfg, e, m)))
  /\ [][(ret'.op = "set_epoch_error" /\ ret'.exc = "AssertionError")
          => \A o \in DOMAIN epochData' :
               epochData'[o].error =
                 IF o \in DOMAIN epochData THEN epochData[o].error ELSE EmptyDict]_vars

\* A report with an invalid value failed for the epoch 2, whose record has the
\* values of an earlier report and nothing else.
C14_Witness ==
  /\ ret.op = "set_epoch_error"
  /\ ret.epoch = 2
  /\ ret.exc = "AssertionError"
  /\ 2 \in DOMAIN epochData
  /\ epochData[2].error =
       [k \in {"dev_score_out1", "dev_score_out2"} |->
          IF k = "dev_score_out1" THEN Num(1, 1) ELSE Num(99, 100)]

\* C15, as stated: the construction of a scheduler on a backing file that
\* exists and whose content is not a mapping from epochs to records (a text cut
\* short, an empty text, a text that is a list) fails.
C15_NonMappingFileFails ==
  /\ cfg.filename # ""
       => \A file \in {<<>>, <<PartialChunk>>} : Construct(cfg, file).exc # ""
  /\ (/\ ret.op = "__init__"
      /\ cfg.filename # ""
      /\ targetFile # NoFile
      /\ load(targetFile).ed = ListStore)
       => ret.exc # ""

\* C16: the construction of a scheduler without per-epoch default rates on a
\* backing path that holds no file, or without a backing path, succeeds with an
\* empty store; no construction creates or changes the file; and a backing path
\* that holds no file gets one only by the rename of a save that completes, which
\* leaves the text of the store there (with no backing path, never).
C16_FreshStart ==
  /\ []((/\ ret.op = "__init__"
         /\ targetFile = NoFile
         /\ cfg.defaultLearningRates = NoRates)
          => (ret.exc = "" /\ epochData = EmptyDict))
  /\ []((cfg.filename = "" \/ lastSaved = NoStore) => targetFile = NoFile)
  /\ [][/\ ret'.op = "__init__" => targetFile' = targetFile
        /\ (targetFile = NoFile /\ targetFile' # NoFile)
             => /\ cfg.filename # ""
                /\ pc = "rename" /\ pc' = "idle"
                /\ ret'.op = "save" /\ ret'.exc = ""
                /\ targetFile' = FileOf(better_repr(epochData))
        /\ (/\ targetFile = NoFile
            /\ pc = "rename" /\ pc' = "idle"
            /\ ret'.op = "save" /\ ret'.exc = "")
             => targetFile' # NoFile]_vars

\* A scheduler was constructed on a backing path that holds no file after a
\* first save was interrupted before its rename: the store is empty and there
\* is still no file, only the temporary file of the interrupted save.
C16_Witness ==
  /\ ret.op = "__init__"
  /\ ret.exc = ""
  /\ cfg.filename # ""
  /\ cfg.defaultLearningRates = NoRates
  /\ targetFile = NoFile
  /\ Len(tmpFile) = 2
  /\ tmpFile[1].kind = "text"
  /\ epochData = EmptyDict

\* C17: the rate that rate_for_epoch computes for an epoch e without a record
\* depends only on the records of the epochs before e.  On every reachable store
\* (with records after e or without) the call gives the result, and the record
\* of e, that it gives on the store cut down to the epochs before e, and that it
\* gives on that store with any other record put at the epoch after e.
C17_HistoryOnly ==
  \A e \in 1..MaxEpoch :
     e \notin DOMAIN epochData =>
       LET Past == [o \in {x \in DOMAIN epochData : x < e} |-> epochData[o]]
           Same(r1, r2) ==
             /\ r1.exc = r2.exc
             /\ r1.val = r2.val
             /\ r1.exc = "" => r1.ed[e] = r2.ed[e]
           Here(r) ==
             /\ Same(r, get_learning_rate_for_epoch(Past, cfg, e))
             /\ \A lr \in {None, Num(1, 4)}, err \in {ErrNone, ErrFloat(Num(1, 2)),
                                                     ErrDict(Report("dev_score", Num(2, 1)))} :
                  Same(r, get_learning_rate_for_epoch(
                            StorePut(Past, e + 1, EpochData(lr, err)), cfg, e))
       IN Here(get_learning_rate_for_epoch(epochData, cfg, e))

\* NewbobRelative gave the epoch 1 the default rate on a store that had the
\* records of the epochs 2 and 3 with their errors.
C17_Witness ==
  /\ cfg.policy = "newbob_rel"
  /\ cfg.minNumEpochsPerNewLearningRate = 0
  /\ cfg.filename = ""
  /\ ret.op = "get_learning_rate_for_epoch"
  /\ ret.epoch = 1
  /\ ret.exc = ""
  /\ ret.val = Num(1, 1)
  /\ DOMAIN epochData = {1, 2, 3}
  /\ epochData[1].error = EmptyDict
  /\ epochData[2].error = [k \in {"dev_score"} |-> Num(1, 1)]
  /\ epochData[3].error = [k \in {"dev_score"} |-> Num(1, 1)]

\* C18: over the rate_for_epoch, report_error and save calls on one scheduler
\* (every step but the construction of a new scheduler) no record is deleted and
\* no decision changes: every epoch of the store is an epoch of the store after
\* the step, and a rate that is not absent has the same value after the step;
\* the steps of save() leave the whole store as it is.
C18_RecordsAndRatesStay ==
  [][ret'.op # "__init__"
       => /\ \A e \in DOMAIN epochData :
               /\ e \in DOMAIN epochData'
               /\ epochData[e].learningRate # None
                    => epochData'[e].learningRate = epochData[e].learningRate
          /\ (pc # "idle" \/ pc' # "idle") => epochData' = epochData]_vars

\* After a completed save of a store with the record of the epoch 1, the error
\* of the epoch 2 was reported: the store has both records, and the epoch 1 has
\* the rate that was saved.
C18_Witness ==
  /\ ret.op = "set_epoch_error"
  /\ ret.exc = ""
  /\ ret.epoch = 2
  /\ DOMAIN lastSaved = {1}
  /\ DOMAIN epochData = {1, 2}
  /\ targetFile = FileOf(better_repr(lastSaved))
  /\ lastSaved[1].learningRate # None
  /\ epochData[1].learningRate = lastSaved[1].learningRate
  /\ epochData[2].learningRate # None

\* C19: save() does not protect against a second writer on the same backing
\* path.  Nothing keeps a process from starting a save while the other is inside
\* one; the open of a save cuts the shared temporary file to no bytes, whatever
\* the other process has written to it; and a rename gives the backing path what
\* the temporary file holds at that moment, whoever wrote it, or fails when the
\* other process has renamed the temporary file away.
C19_SavesDoNotExclude ==
  /\ [](\A p \in Procs : procs[p].pc = "idle" => ENABLED ConcSaveOpen(p))
  /\ [][\A p \in Procs :
          /\ (procs[p].pc = "idle" /\ procs'[p].pc = "write")
               => (tmpFile' = <<>> /\ targetFile' = targetFile)
          /\ (procs[p].pc = "rename" /\ procs'[p].pc = "idle")
               => IF tmpFile = NoFile
                  THEN /\ procs'[p].exc = "OSError"
                       /\ targetFile' = targetFile
                  ELSE /\ procs'[p].exc = ""
                       /\ targetFile' = tmpFile
                       /\ tmpFile' = NoFile]_vars

\* The save of the process 1 has completed without an exception and the backing
\* file holds a text that is the complete text of neither store and that load()
\* cannot parse, while the process 2 is inside its save.
C19_Witness ==
  /\ targetFile # NoFile
  /\ \A p \in Procs : targetFile # FileOf(better_repr(procs[p].epochData))
  /\ ~IsCompleteText(targetFile)
  /\ procs[1].pc = "idle"
  /\ procs[1].exc = ""
  /\ procs[2].pc # "idle"

\* C20, as stated: rate_for_epoch for an epoch that has a record whose rate is
\* absent computes the rate by the hold-over rule and the policy, stores it as
\* the rate of that epoch and returns it, a number.
C20_AbsentRateIsComputed ==
  [][\A e \in 1..MaxEpoch :
        (/\ ret'.op = "get_learning_rate_for_epoch"
         /\ ret'.epoch = e
         /\ e \in DOMAIN epochData
         /\ epochData[e].learningRate = None)
          => /\ ret'.exc = ""
             /\ ret'.val # None
             /\ ret'.val = calc_new_learnign_rate_for_epoch(epochData, cfg, e).val
             /\ epochData'[e].learningRate = ret'.val]_vars

\* C21: the rate computed for an epoch e without a record. With m > 1, when the
\* last m records before e carry at least two distinct rate values (an absent
\* rate is a value), or when at least one but fewer than m records precede e,
\* the rate is that of the most recent of those records and nothing the policy
\* would raise is raised; with m <= 1, or with no record before e, the rate is
\* the greater of the policy's proposal and the minimum rate (and what the
\* policy raises is raised).
C21_HoldOverRule ==
  [][\A e \in 1..MaxEpoch :
        LET m == cfg.minNumEpochsPerNewLearningRate
            Before == {x \in DOMAIN epochData : x < e}
            W == {x \in Before : Cardinality({y \in Before : x < y}) < m}
            Rates == {epochData[x].learningRate : x \in W}
            Computed == /\ ret'.op = "get_learning_rate_for_epoch"
                        /\ ret'.epoch = e
                        /\ e \notin DOMAIN epochData
            Proposal(p) ==
              IF p.exc # "" THEN ret'.exc = p.exc
              ELSE /\ ret'.exc = ""
                   /\ ret'.val = (IF FGreater(cfg.minLearningRate, p.val)
                                  THEN cfg.minLearningRate ELSE p.val)
        IN /\ (/\ Computed
               /\ m > 1
               /\ \/ Cardinality(Rates) >= 2
                  \/ (Cardinality(W) >= 1 /\ Cardinality(W) < m))
              => /\ ret'.exc = ""
                 /\ \E x \in W : /\ \A y \in W : y <= x
                                 /\ ret'.val = epochData[x].learningRate
           /\ (Computed /\ (m <= 1 \/ Before = {}))
              => Proposal(calc_learning_rate_for_epoch(epochData, cfg, e))]_vars

\* Under the constant policy with the minimum rate 3/4 and m = 2, the epochs 1
\* and 2 carry the configured rates 1 and 1/4, and the rate computed for epoch 3
\* is the held 1/4 (the policy's proposal, clamped, would be 3/4).
C21_Witness ==
  /\ ret.op = "get_learning_rate_for_epoch"
  /\ ret.exc = ""
  /\ ret.epoch = 3
  /\ cfg.policy = "constant"
  /\ cfg.minNumEpochsPerNewLearningRate = 2
  /\ cfg.minLearningRate = Num(3, 4)
  /\ DOMAIN epochData = {1, 2, 3}
  /\ epochData[1].learningRate = Num(1, 1)
  /\ epochData[2].learningRate = Num(1, 4)
  /\ \A e \in {1, 2, 3} : epochData[e].error = EmptyDict
  /\ ret.val = Num(1, 4)

C24_RateChangesAtIntervalBoundaries ==
  (/\ cfg.policy = "newbob_multi_epoch"
   /\ cfg.updateInterval > 1
   /\ cfg.minNumEpochsPerNewLearningRate <= 1
   /\ cfg.defaultLearningRates = NoRates)
  => /\ DOMAIN epochData = 1..Cardinality(DOMAIN epochData)
     /\ \A e \in DOMAIN epochData :
           /\ ((e - 1) \in DOMAIN epochData
                 /\ epochData[e].learningRate # epochData[e - 1].learningRate)
              => e % cfg.updateInterval = 1
           /\ e % cfg.updateInterval # 1
              => \E x \in DOMAIN epochData :
                    /\ x < e
                    /\ \A y \in DOMAIN epochData : y < e => y <= x
                    /\ epochData[e].learningRate = epochData[x].learningRate

\* With u = 2 and errors that do not improve, the rate is 1 at the epochs 1 and
\* 2, decays to 1/2 at epoch 3, stays at epoch 4 and decays to 1/4 at epoch 5.
C24_Witness ==
  /\ cfg.policy = "newbob_multi_epoch"
  /\ cfg.updateInterval = 2
  /\ DOMAIN epochData = 1..5
  /\ epochData[1].learningRate = Num(1, 1)
  /\ epochData[2].learningRate = Num(1, 1)
  /\ epochData[3].learningRate = Num(1, 2)
  /\ epochData[4].learningRate = Num(1, 2)
  /\ epochData[5].learningRate = Num(1, 4)

\* C25: under NewbobMultiEpoch without hold-over, the rate computed for a new
\* epoch e at which the rate is updated (the update interval is 1, or
\* e mod u = 1) starts from the most recent rate before e (the default rate if
\* there is none) and looks at the last numEpochs + 1 records before e: with
\* fewer than two of them, or with a consecutive pair whose relative error is
\* none, the rate is unchanged; else it is multiplied by the decay factor if the
\* mean of the relative errors of the consecutive pairs is greater than the
\* threshold, and by the growth factor if it is not.
C25_MultiEpochUpdate ==
  [][\A e \in 1..MaxSeqEpoch :
        LET Before == {y \in DOMAIN epochData : y < e}
            Rated == {y \in Before : epochData[y].learningRate # None}
            Window == {x \in Before : Cardinality({y \in Before : y > x}) < cfg.numEpochs + 1}
            Rate(S) == IF S = {} THEN cfg.defaultLearningRate
                       ELSE epochData[CHOOSE x \in S : \A y \in S : y <= x].learningRate
            Pairs(w) == [i \in 1..(Len(w) - 1) |->
                           calc_relative_error(epochData, cfg, w[i], w[i + 1])]
            Mean(rels) == FDiv(FSum([i \in 1..Len(rels) |-> rels[i].val]), Num(Len(rels), 1))
            Decide(rate, rels) ==
              IF \E i \in 1..Len(rels) : rels[i].exc # "" THEN ret'.exc # ""
              ELSE /\ ret'.exc = ""
                   /\ ret'.val = (IF Len(rels) < 1 \/ \E i \in 1..Len(rels) : rels[i].val = None
                                  THEN rate
                                  ELSE IF FGreater(Mean(rels), cfg.relativeErrorThreshold)
                                       THEN FMul(rate, cfg.learningRateDecayFactor)
                                  ELSE FMul(rate, cfg.learningRateGrowthFactor))
        IN (/\ cfg.policy = "newbob_multi_epoch"
            /\ cfg.minNumEpochsPerNewLearningRate <= 1
            /\ (cfg.updateInterval <= 1 \/ e % cfg.updateInterval = 1)
            /\ ret'.op = "get_learning_rate_for_epoch"
            /\ ret'.epoch = e
            /\ e \notin DOMAIN epochData)
           => Decide(Rate(Rated), Pairs(SortedInts(Window)))]_vars

\* With u = 2 and a window of three epochs, the epochs 2, 3 and 4 got the errors
\* 1, 1 and 99/100: the relative errors 0 and -1/99 have a mean above the
\* threshold -1/100 (the last of them alone is below it) and the rate of epoch
\* 5 is that of epoch 4 times the decay factor.
C25_Witness ==
  /\ cfg.policy = "newbob_multi_epoch"
  /\ cfg.updateInterval = 2
  /\ cfg.learningRateGrowthFactor = Num(3, 2)
  /\ ret.op = "get_learning_rate_for_epoch"
  /\ ret.exc = ""
  /\ ret.epoch = 5
  /\ DOMAIN epochData = 1..5
  /\ \A e \in {1, 2, 3} : epochData[e].error = [k \in {"dev_score"} |-> Num(1, 1)]
  /\ epochData[4].error = [k \in {"dev_score"} |-> Num(99, 100)]
  /\ epochData[5].error = EmptyDict
  /\ epochData[4].learningRate = Num(1, 2)
  /\ ret.val = Num(1, 4)

C28_DividedByRateBefore ==
  cfg.relativeErrorAlsoRelativeToLearningRate =>
  \A old \in 1..MaxPolicyEpoch :
     \A new \in 1..MaxPolicyEpoch :
        LET Rated == {x \in DOMAIN epochData : x < new /\ epochData[x].learningRate # None}
            Rate(S) == IF S = {} THEN cfg.defaultLearningRate
                       ELSE epochData[CHOOSE x \in S : \A y \in S : y <= x].learningRate
            Scaled(plain) ==
              plain.val # None
                => calc_relative_error(epochData, cfg, old, new)
                     = [exc |-> "",
                        val |-> FDiv(plain.val, FDiv(Rate(Rated), cfg.defaultLearningRate))]
        IN Scaled(calc_relative_error(
                    epochData,
                    [cfg EXCEPT !.relativeErrorAlsoRelativeToLearningRate = FALSE],
                    old, new))

\* C28: the same with r the most recent stored rate of an epoch up to and
\* including new: the rate of new itself when its record has one.
C28_DividedByRateUpTo ==
  cfg.relativeErrorAlsoRelativeToLearningRate =>
  \A old \in 1..MaxPolicyEpoch :
     \A new \in 1..MaxPolicyEpoch :
        LET Rated == {x \in DOMAIN epochData : x <= new /\ epochData[x].learningRate # None}
            Rate(S) == IF S = {} THEN cfg.defaultLearningRate
                       ELSE epochData[CHOOSE x \in S : \A y \in S : y <= x].learningRate
            Scaled(plain) ==
              plain.val # None
                => calc_relative_error(epochData, cfg, old, new)
                     = [exc |-> "",
                        val |-> FDiv(plain.val, FDiv(Rate(Rated), cfg.defaultLearningRate))]
        IN Scaled(calc_relative_error(
                    epochData,
                    [cfg EXCEPT !.relativeErrorAlsoRelativeToLearningRate = FALSE],
                    old, new))

\* The epochs 1 and 2 have the configured rates 1 and 2 and got the dev_scores 1
\* and 99/100: the plain relative error -1/99 is not above the threshold -1/100,
\* divided by the rate 2 of epoch 2 it is -1/198, which is, and the rate
\* computed for epoch 3 is the decayed 2 * 1/2 = 1.
C28_Witness ==
  /\ cfg.policy = "newbob_rel"
  /\ cfg.relativeErrorAlsoRelativeToLearningRate
  /\ ret.op = "get_learning_rate_for_epoch"
  /\ ret.exc = ""
  /\ ret.epoch = 3
  /\ DOMAIN epochData = {1, 2, 3}
  /\ epochData[1].learningRate = Num(1, 1)
  /\ epochData[2].learningRate = Num(2, 1)
  /\ epochData[1].error = [k \in {"dev_score"} |-> Num(1, 1)]
  /\ epochData[2].error = [k \in {"dev_score"} |-> Num(99, 100)]
  /\ calc_relative_error(epochData, cfg, 1, 2).val = Num(-1, 198)
  /\ ret.val = Num(1, 1)

\* C29: error_key_for_epoch on an epoch with a non-empty error map gives the
\* old format's key if it is the only key; else the first key of the map among
\* each selector name followed by its _output variant, dev_score and
\* dev_score_output; else the smallest key that is dev_score_output/output or
\* starts with dev_score_output/output_; else the smallest key that starts with
\* dev_score_output/; else the smallest key that starts with dev_; else
\* train_score, else train_score_output; else the smallest key.
C29_ReferenceResolution ==
  LET have == IF ret.epoch \in DOMAIN epochData
              THEN DOMAIN epochData[ret.epoch].error ELSE {}
      sel == cfg.errorMeasureKey.keys
      Named == [i \in 1..(2 * Len(sel) + 2) |->
                  IF i = 2 * Len(sel) + 1 THEN "dev_score"
                  ELSE IF i = 2 * Len(sel) + 2 THEN "dev_score_output"
                  ELSE IF i % 2 = 1 THEN sel[(i + 1) \div 2]
                  ELSE sel[i \div 2] \o "_output"]
      Smallest(S) == CHOOSE k \in S : \A o \in S : o = k \/ StrLess(k, o)
      Output == {k \in have : \/ k = "dev_score_output/output"
                              \/ (/\ Len(k) >= 24
                                  /\ SubSeq(k, 1, 24) = "dev_score_output/output_")}
      Outputs == {k \in have : Len(k) >= 17 /\ SubSeq(k, 1, 17) = "dev_score_output/"}
      Dev == {k \in have : Len(k) >= 4 /\ SubSeq(k, 1, 4) = "dev_"}
  IN (ret.op = "get_error_key" /\ have # {})
     => /\ ret.exc = ""
        /\ ret.val
             = (IF have = {"old_format_score"} THEN "old_format_score"
                ELSE IF \E i \in DOMAIN Named : Named[i] \in have
                     THEN Named[CHOOSE i \in DOMAIN Named :
                                  /\ Named[i] \in have
                                  /\ \A j \in 1..(i - 1) : Named[j] \notin have]
                ELSE IF Output # {} THEN Smallest(Output)
                ELSE IF Outputs # {} THEN Smallest(Outputs)
                ELSE IF Dev # {} THEN Smallest(Dev)
                ELSE IF "train_score" \in have THEN "train_score"
                ELSE IF "train_score_output" \in have THEN "train_score_output"
                ELSE Smallest(have))

\* With the selectors train_error and cost, the map has the keys
\* dev_score_output/a, dev_score_output/output_b and train_score, and the key is
\* dev_score_output/output_b: not the smaller dev_score_output/a and not
\* train_score.
C29_Witness ==
  /\ cfg.errorMeasureKey.kind = "list"
  /\ ret.op = "get_error_key"
  /\ ret.epoch = 1
  /\ DOMAIN epochData[1].error
       = {"dev_score_output/a", "dev_score_output/output_b", "train_score"}
  /\ ret.val = "dev_score_output/output_b"

\* C30: error_key_for_epoch on an epoch without a stored error, be it an epoch
\* without a record or an epoch whose record has an empty error map, gives the
\* first configured selector name, and none if no selector is configured.
C30_NoErrorGivesSelector ==
  (/\ ret.op = "get_error_key"
   /\ \/ ret.epoch \notin DOMAIN epochData
      \/ epochData[ret.epoch].error = EmptyDict)
  => /\ ret.exc = ""
     /\ ret.val = (IF cfg.errorMeasureKey.kind = "none" THEN NoKey
                   ELSE cfg.errorMeasureKey.keys[1])

\* C31: best_epoch_in_range(first, last, max_error, only_last_n, min_distance)
\* is the result of these steps: the epochs of first..last with a value; of
\* them those with the resolved key of the last one; of them those whose value
\* is not above max_error; of them the last only_last_n if only_last_n >= 1; of
\* them those whose value plus min_distance is below the value of the last
\* epoch with a value; the epoch of the smallest value and, among equal values,
\* the smallest epoch; and none when no epoch is left.
C31_ReferencePipeline ==
  ret.op = "get_last_best_epoch" =>
    LET first == ret.args[1]
        max_error == ret.args[2]
        only_last_n == ret.args[3]
        min_distance == ret.args[4]
        Key(e) == get_error_key(epochData, cfg, e)
        Val(e) == epochData[e].error[Key(e)]
        Kept == {e \in first..ret.epoch :
                   e \in DOMAIN epochData /\ epochData[e].error # EmptyDict}
        Top(S) == CHOOSE e \in S : \A x \in S : x <= e
        SameKey == {e \in Kept : Key(e) = Key(Top(Kept))}
        Under == {e \in SameKey : FLessEq(Val(e), max_error)}
        Last == IF only_last_n >= 1
                THEN {e \in Under : Cardinality({x \in Under : x > e}) < only_last_n}
                ELSE Under
        Far == {e \in Last : FLess(FAdd(Val(e), min_distance), Val(Top(Kept)))}
    IN /\ ret.exc = ""
       /\ IF Far = {} THEN ret.best = NoEpoch
          ELSE /\ ret.best \in Far
               /\ \A x \in Far : \/ FLess(Val(ret.best), Val(x))
                                 \/ (Val(x) = Val(ret.best) /\ ret.best <= x)

\* Of the dev_scores 17/20, 4/5, 7/10, 4/5, 9/10 the search with max_error 4/5
\* and only_last_n 2 from epoch 2 on keeps the epochs 2, 3, 4, then 3 and 4, and
\* gives epoch 3 (the last two epochs of the range are 4 and 5, which would
\* give epoch 4).
C31_Witness ==
  /\ ret.op = "get_last_best_epoch"
  /\ ret.epoch = 5
  /\ ret.args = <<2, Num(4, 5), 2, Num(0, 1)>>
  /\ DOMAIN epochData = 1..5
  /\ \A e \in 1..5 :
       epochData[e].error =
         [k \in {"dev_score"} |-> <<Num(17, 20), Num(4, 5), Num(7, 10), Num(4, 5), Num(9, 10)>>[e]]
  /\ ret.best = 3

C34_SetDefaultNeverOverwrites ==
  [][\A e \in 1..MaxDefaultEpoch :
        (ret'.op = "set_default_learning_rate_for_epoch" /\ ret'.epoch = e)
          => /\ e \in DOMAIN epochData'
             /\ epochData'[e].learningRate =
                  (IF e \in DOMAIN epochData /\ epochData[e].learningRate # None
                   THEN epochData[e].learningRate
                   ELSE ret'.val)
             /\ epochData'[e].error =
                  (IF e \in DOMAIN epochData THEN epochData[e].error ELSE EmptyDict)
             /\ \A o \in DOMAIN epochData' \ {e} :
                  o \in DOMAIN epochData /\ epochData'[o] = epochData[o]]_vars

\* C35: for every epoch with a non-empty error map, whatever the selector is,
\* the resolved key is a key of the map, and the value of the epoch, its
\* relative error and the best epoch of a range with it are found without the
\* failure on a key that the map does not have.
C35_ResolvedKeyIsPresent ==
  /\ \A e \in DOMAIN epochData :
        epochData[e].error # EmptyDict
          => /\ get_error_key(epochData, cfg, e) \in DOMAIN epochData[e].error
             /\ get_epoch_error_key_value(epochData, cfg, e).exc = ""
             /\ get_epoch_error_key_value(epochData, cfg, e).value
                  = epochData[e].error[get_error_key(epochData, cfg, e)]
             /\ calc_relative_error(epochData, cfg, e, e).exc # "AssertionError"
             /\ get_last_best_epoch(epochData, cfg, e, 1, PosInf, -1, Num(0, 1)).exc = ""
  /\ (/\ ret.op = "get_error_key"
      /\ ret.epoch \in DOMAIN epochData
      /\ epochData[ret.epoch].error # EmptyDict)
       => ret.val \in DOMAIN epochData[ret.epoch].error

\* With the selector train_error, the map has the keys cost and
\* old_format_score, neither of them a selector name or a dev or train score,
\* and the key is cost.
C35_Witness ==
  /\ cfg.errorMeasureKey.kind = "str"
  /\ ret.op = "get_error_key"
  /\ ret.epoch = 1
  /\ DOMAIN epochData[1].error = {"cost", "old_format_score"}
  /\ ret.val = "cost"

\* C36: a scheduler constructed with per-epoch default rates on a backing path
\* that holds a file has exactly the store of the file: a default rate of an
\* epoch that the file does not have is gone, and rate_for_epoch of that epoch
\* returns what the policy computes from the store of the file. Constructed
\* without a file, every epoch with a per-epoch default rate has a record with
\* that rate and no errors, and the store has no other record.
C36_FileReplacesDefaults ==
  (ret.op = "__init__" /\ cfg.defaultLearningRates # NoRates)
    => IF cfg.filename # "" /\ targetFile # NoFile
       THEN /\ ret.exc = load(targetFile).exc
            /\ epochData = load(targetFile).ed
            /\ \A i \in DOMAIN cfg.defaultLearningRates :
                  (ret.exc = "" /\ epochData # ListStore /\ i \notin DOMAIN epochData)
                    => get_learning_rate_for_epoch(epochData, cfg, i).val
                         = calc_new_learnign_rate_for_epoch(load(targetFile).ed, cfg, i).val
       ELSE /\ ret.exc = ""
            /\ DOMAIN epochData = DOMAIN cfg.defaultLearningRates
            /\ \A i \in DOMAIN cfg.defaultLearningRates :
                  /\ epochData[i] = EpochData(cfg.defaultLearningRates[i], ErrNone)
                  /\ get_learning_rate_for_epoch(epochData, cfg, i).val
                       = cfg.defaultLearningRates[i]

\* The scheduler with the default rates 1/4 and 1/8 for the epochs 1 and 2 was
\* constructed on a file that has epoch 1 only, with the rate 1: the rate asked
\* for epoch 2 is the constant policy's 1, not 1/8.
C36_Witness ==
  /\ ret.op = "get_learning_rate_for_epoch"
  /\ ret.epoch = 2
  /\ ret.exc = ""
  /\ cfg.defaultLearningRates = <<Num(1, 4), Num(1, 8)>>
  /\ targetFile = FileOf(OldFormatText)
  /\ lastSaved = load(targetFile).ed
  /\ DOMAIN lastSaved = {1}
  /\ ret.val = Num(1, 1)
  /\ ret.val # cfg.defaultLearningRates[2]
  /\ epochData[1] = lastSaved[1]
  /\ epochData[2].learningRate = Num(1, 1)

C38_RelativeErrorNeverFails ==
  /\ \A old \in DOMAIN epochData, new \in DOMAIN epochData :
        calc_relative_error(epochData, cfg, old, new).exc = ""
  /\ ret.op = "get_learning_rate_for_epoch" => ret.exc = ""

\* C39: under NewbobRelative or NewbobAbs without per-epoch default rates, from
\* an empty store, with a positive default rate and a decay factor in (0, 1],
\* when the rates are asked for the epochs 1, 2, 3, ... in order: the rate of
\* every epoch e >= 2 is the rate of e - 1 or the larger one of that rate times
\* the decay factor and the minimum rate, and it is not above the rate of e - 1;
\* a call that returns the rate of a new epoch e >= 2 returns such a rate.
C39_RatesNeverGrow ==
  /\ []((/\ cfg.policy \in {"newbob_rel", "newbob_abs"}
         /\ cfg.defaultLearningRates = NoRates
         /\ FLess(Num(0, 1), cfg.defaultLearningRate)
         /\ FLess(Num(0, 1), cfg.learningRateDecayFactor)
         /\ FLessEq(cfg.learningRateDecayFactor, Num(1, 1)))
          => \A e \in DOMAIN epochData :
               e >= 2 =>
                 LET prev == epochData[e - 1].learningRate
                     dec == FMul(prev, cfg.learningRateDecayFactor)
                     low == IF FLess(dec, cfg.minLearningRate)
                            THEN cfg.minLearningRate ELSE dec
                 IN /\ epochData[e].learningRate \in {prev, low}
                    /\ FLessEq(epochData[e].learningRate, prev))
  /\ [][(/\ cfg.policy \in {"newbob_rel", "newbob_abs"}
         /\ ret'.op = "get_learning_rate_for_epoch"
         /\ ret'.epoch >= 2
         /\ ret'.epoch \notin DOMAIN epochData)
          => /\ ret'.exc = ""
             /\ ret'.val \in {epochData[ret'.epoch - 1].learningRate,
                              IF FLess(FMul(epochData[ret'.epoch - 1].learningRate,
                                            cfg.learningRateDecayFactor),
                                       cfg.minLearningRate)
                              THEN cfg.minLearningRate
                              ELSE FMul(epochData[ret'.epoch - 1].learningRate,
                                        cfg.learningRateDecayFactor)}
             /\ epochData'[ret'.epoch].learningRate = ret'.val]_vars

\* NewbobAbs with the minimum rate 3/8: the rates of the epochs 1 to 4 are 1,
\* 1, 1/2 and 3/8, the last one returned by the call for the epoch 4: the rate
\* stayed at epoch 2, decayed at epoch 3 and decayed to the minimum rate at 4.
C39_Witness ==
  /\ cfg.policy = "newbob_abs"
  /\ cfg.minLearningRate = Num(3, 8)
  /\ ret.op = "get_learning_rate_for_epoch"
  /\ ret.epoch = 4
  /\ ret.val = Num(3, 8)
  /\ DOMAIN epochData = 1..4
  /\ epochData[1].learningRate = Num(1, 1)
  /\ epochData[2].learningRate = Num(1, 1)
  /\ epochData[3].learningRate = Num(1, 2)
  /\ epochData[4].learningRate = Num(3, 8)

\* C40: a rate_for_epoch call that succeeds for an epoch without a record adds
\* the record of that epoch, with the returned rate and no errors, and changes
\* no other record; a report_error call for the epoch e changes no record of
\* another epoch, no rate of a record that was there, and adds at most the
\* record of e; no step of save() changes the store, and without a backing
\* path save() leaves the file and the temporary file absent.
C40_CallsChangeTheirPartOnly ==
  [][/\ (/\ ret'.op = "get_learning_rate_for_epoch"
         /\ ret'.exc = ""
         /\ ret'.epoch \notin DOMAIN epochData)
          => /\ DOMAIN epochData' = DOMAIN epochData \cup {ret'.epoch}
             /\ epochData'[ret'.epoch] = EpochData(ret'.val, ErrNone)
             /\ \A o \in DOMAIN epochData : epochData'[o] = epochData[o]
     /\ ret'.op = "set_epoch_error"
          => /\ DOMAIN epochData \subseteq DOMAIN epochData'
             /\ DOMAIN epochData' \subseteq DOMAIN epochData \cup {ret'.epoch}
             /\ \A o \in DOMAIN epochData :
                  /\ epochData'[o].learningRate = epochData[o].learningRate
                  /\ o # ret'.epoch => epochData'[o] = epochData[o]
     /\ ret'.op = "save"
          => /\ epochData' = epochData
             /\ cfg.filename = ""
                  => /\ targetFile = NoFile /\ targetFile' = NoFile
                     /\ tmpFile = NoFile /\ tmpFile' = NoFile]_vars

\* A scheduler without a backing path was asked to save after a rate was asked
\* for the epoch 1 and errors were reported for the epoch 2: the store has the
\* two records, and there is no file and no temporary file.
C40_Witness ==
  /\ cfg.filename = ""
  /\ ret.op = "save"
  /\ ret.exc = ""
  /\ DOMAIN epochData = {1, 2}
  /\ epochData[1] = EpochData(Num(1, 1), ErrNone)
  /\ epochData[2].learningRate = Num(1, 1)
  /\ DOMAIN epochData[2].error = {"dev_score", "train_score"}
  /\ targetFile = NoFile
  /\ tmpFile = NoFile
====
